---- MODULE Spec2Model ----
(***************************************************************************)
(* Shipment tracker (Trung051/stockhang102): the SQLite tables             *)
(* ShipmentDetails and AuditLog, the operations of database.py on them,    *)
(* the Telegram notification of telegram_helpers.py, the Google Sheets     *)
(* mirror of google_sheets.py and the Streamlit handlers of app.py that    *)
(* call them.                                                              *)
(*                                                                         *)
(* Text values are modelled by short ASCII strings.  SQL NULL / Python     *)
(* None is the string None for text columns and 0 for the two integer      *)
(* columns received_time and telegram_message_id (both are only tested     *)
(* for truthiness by the code).                                            *)
(***************************************************************************)
EXTENDS Integers, Sequences, FiniteSets, TLC

----------------------------------------------------------------------------
(* Bounds *)

\* Longest audit log explored.  Every successful write operation appends one
\* audit row, so this also bounds the number of operations and the clock.
MaxAudit == 3

----------------------------------------------------------------------------
(* Values *)

None == "None"

\* config.py:31  STATUS_VALUES = ['Đang gửi', 'Đã nhận', 'Hư hỏng', 'Mất']
DANG_GUI == "Dang gui"
DA_NHAN == "Da nhan"
HU_HONG == "Hu hong"
MAT == "Mat"
STATUS_VALUES == <<DANG_GUI, DA_NHAN, HU_HONG, MAT>>

\* config.py:34
DEFAULT_STATUS == DANG_GUI

\* The literal that app.py compares with and passes as the received status
\* (app.py:323, 327, 368, 1041).  In app.py the bytes of this literal are
\* c6 92 c3 aa e2 88 9a c2 a3 20 6e 68 c2 b7 e2 88 ab e2 89 a0 6e, a string of
\* 10 characters that is different from the 7-character 'Đã nhận'
\* (c4 90 c3 a3 20 6e 68 e1 ba ad 6e) of config.py, database.py and
\* telegram_helpers.py, so Python's == between the two is False.
APP_DA_NHAN == "Da nhan (app.py literal)"

\* database.py:161, 256
ERR_DUPLICATE == "Ma QR da ton tai"
\* database.py:288
ERR_NOT_FOUND == "Phieu khong ton tai"

\* Inputs a user can type or select (small representative sets).
Users == {"admin"}
QrCodes == {"QR1", "QR2"}
Imeis == {"imei1"}
DeviceNames == {"iPhone 15"}
Capacities == {"128GB"}
Suppliers == {"GHN"}
ImageUrls == {"img"}

CreateNotes == {None}
StatusNotes == {None}
EditNotes == {None}

StatusSet == {STATUS_VALUES[i] : i \in 1..Len(STATUS_VALUES)}

\* Outcomes of the Google Sheets call made by sync_shipment_to_sheets:
\* it completes, it returns {'success': False}, or the import / call raises.
SyncOutcomes == {"ok", "fail", "raise"}
\* Outcomes of one Telegram request (send_text / send_photo).
SendOutcomes == {"ok", "fail"}
\* The optional Drive upload of the create / edit forms when it does not
\* fail: "none" no file chosen, "ok" a URL returned.  The forms below are
\* submitted without a file; the failing upload has its own actions.
CreateUploads == {"none"}
EditUploads == {"none"}

VARIABLES
    ShipmentDetails,   \* table ShipmentDetails: sequence of rows, row i has id i
    AuditLog,          \* table AuditLog: sequence of rows in insertion order
    worksheet,         \* data rows of the Google worksheet (below the header)
    clock,             \* number of timestamps handed out so far
    telegram_calls,    \* number of sendMessage / sendPhoto requests made
    username,          \* st.session_state['username'] of the logged-in session
    found_shipment,    \* st.session_state['found_shipment']: <<>> or <<copy>>
    was_received,      \* history: ids of the rows whose status has been 'Đã nhận'
    last_call,         \* the database operation run by the last handler
    result,            \* what that operation returned
    image,             \* what each detector call finds in the uploaded image
    available,         \* CV2_AVAILABLE and PYZBAR_AVAILABLE of qr_scanner.py
    attempted,         \* detector calls made so far by decode_qr_from_image
    pc,                \* position of decode_qr_from_image in its chain
    tokens,            \* remember_tokens.json: token -> username, expires_at
    utcnow,            \* datetime.utcnow(), in days
    issued,            \* history: every token create_remember_token returned
    removed,           \* history: the tokens handed to remove_token
    supplier_rows,     \* table Suppliers: sequence of rows, row i has id i
    sessions,          \* the calls in progress in concurrent sessions, with their locals
    user_rows          \* table Users: sequence of rows in insertion order

\* The variables of the shipment pages.
app_vars == <<ShipmentDetails, AuditLog, worksheet, clock, telegram_calls, username, found_shipment, was_received>>

\* The variables of decode_qr_from_image.
scan_vars == <<image, available, attempted, pc>>

\* The variables of the remember tokens.
auth_vars == <<tokens, utcnow, issued, removed>>

\* The variables of the supplier settings.
supplier_vars == <<supplier_rows>>

\* The calls in progress of concurrent sessions.
session_vars == <<sessions>>

\* The variables of the user accounts.
account_vars == <<user_rows>>

\* The variables the shipment pages leave alone.
side_vars == <<scan_vars, auth_vars, supplier_vars, session_vars, account_vars>>

vars == <<app_vars, last_call, result, side_vars>>

\* No image is being decoded.
ScanIdle ==
    /\ image = <<>>
    /\ available = [cv2 |-> TRUE, pyzbar |-> TRUE]
    /\ attempted = <<>>
    /\ pc = "idle"

\* remember_tokens.json does not exist (auth.py:19-20).
AuthIdle ==
    /\ tokens = <<>>
    /\ utcnow = 0
    /\ issued = {}
    /\ removed = {}

\* config.DEFAULT_SUPPLIERS as seeded by init_database (database.py:96-110).
DEFAULT_SUPPLIERS ==
    <<[id |-> 1, name |-> "GHN", is_active |-> TRUE],
      [id |-> 2, name |-> "J&T", is_active |-> TRUE],
      [id |-> 3, name |-> "Ahamove", is_active |-> TRUE]>>

SuppliersIdle == supplier_rows = DEFAULT_SUPPLIERS

\* No call is in progress in another session.
SessionsIdle == sessions = <<>>

\* config.py:24-28
USERS == [admin |-> "admin123", user |-> "user123", staff |-> "staff123"]

\* The Users table as init_database seeds it from USERS.
SeededUsers ==
    <<[username |-> "admin", password |-> USERS["admin"], is_admin |-> TRUE],
      [username |-> "user", password |-> USERS["user"], is_admin |-> FALSE],
      [username |-> "staff", password |-> USERS["staff"], is_admin |-> FALSE]>>

AccountsIdle == user_rows = SeededUsers

----------------------------------------------------------------------------
(* Helpers over sequences *)

Indices(rows, qr_code) == {i \in 1..Len(rows) : rows[i].qr_code = qr_code}

\* cursor.fetchone() of SELECT ... WHERE qr_code = ? : <<>> or <<row>>
get_shipment_by_qr_code(rows, qr_code) ==
    IF Indices(rows, qr_code) = {}
    THEN <<>>
    ELSE <<rows[CHOOSE i \in Indices(rows, qr_code) : TRUE]>>

\* The columns of a fetched row that show_shipment_info reads back from the
\* copy it keeps in the session (app.py:319, 326, 336).
SessionCopy(found) ==
    IF found = <<>> THEN <<>>
    ELSE <<[id |-> found[1].id, qr_code |-> found[1].qr_code,
            status |-> found[1].status]>>

\* SELECT ... WHERE id = ? : <<>> or <<row>>
get_shipment_by_id(rows, shipment_id) ==
    IF shipment_id \in 1..Len(rows) THEN <<rows[shipment_id]>> ELSE <<>>

----------------------------------------------------------------------------
(* database.py: log_audit *)

\* Variant: a status change is logged only when the new status is 'Đã nhận'.
log_audit_received_only(log, shipment_id, action, old_value, new_value, changed_by) ==
    IF action = "STATUS_CHANGED" /\ new_value # DA_NHAN
    THEN log
    ELSE Append(log, [shipment_id |-> shipment_id, action |-> action,
                      old_value |-> old_value, new_value |-> new_value,
                      changed_by |-> changed_by])

log_audit(log, shipment_id, action, old_value, new_value, changed_by) ==
    Append(log, [shipment_id |-> shipment_id, action |-> action,
                 old_value |-> old_value, new_value |-> new_value,
                 changed_by |-> changed_by])

----------------------------------------------------------------------------
(* google_sheets.py: the single-row sync *)

\* A worksheet row is identified by its first cell, the shipment id; the
\* other twelve cells are copies of the database row and are left out.
SheetRow(row) == [id |-> row.id]

find_row_by_id(sheet, shipment_id) ==
    LET hits == {i \in 1..Len(sheet) : sheet[i].id = shipment_id}
    IN  IF hits = {} THEN 0 ELSE CHOOSE i \in hits : \A j \in hits : i <= j

add_shipment_to_sheets(sheet, row) == Append(sheet, SheetRow(row))

update_shipment_in_sheets(sheet, row) ==
    LET row_num == find_row_by_id(sheet, row.id)
    IN  IF row_num = 0
        THEN add_shipment_to_sheets(sheet, row)
        ELSE [sheet EXCEPT ![row_num] = SheetRow(row)]

\* The worksheet after sync_shipment_to_sheets(shipment_id, is_new).
sync_shipment_to_sheets(sheet, rows, shipment_id, is_new, outcome) ==
    IF outcome # "ok" \/ get_shipment_by_id(rows, shipment_id) = <<>>
    THEN sheet
    ELSE IF is_new
         THEN add_shipment_to_sheets(sheet, rows[shipment_id])
         ELSE update_shipment_in_sheets(sheet, rows[shipment_id])

----------------------------------------------------------------------------
(* database.py: save_shipment, update_shipment, update_shipment_status *)

\* A database state handed to and returned by the operations below.
Db(rows, log, sheet, clk) ==
    [ShipmentDetails |-> rows, AuditLog |-> log, worksheet |-> sheet,
     clock |-> clk]

Returned(db, res) ==
    [ShipmentDetails |-> db.ShipmentDetails, AuditLog |-> db.AuditLog,
     worksheet |-> db.worksheet, clock |-> db.clock, result |-> res]

\* The row INSERTed by save_shipment: status and sent_time take the column
\* defaults, received_time and updated_by stay NULL.
NewRow(id, qr_code, imei, device_name, capacity, supplier, created_by, notes, image_url, now) ==
    [id |-> id, qr_code |-> qr_code, imei |-> imei,
     device_name |-> device_name, capacity |-> capacity,
     supplier |-> supplier, status |-> DEFAULT_STATUS, sent_time |-> now,
     received_time |-> 0, created_by |-> created_by, updated_by |-> None,
     notes |-> notes, image_url |-> image_url, telegram_message_id |-> 0]

\* Variant: INSERT OR REPLACE, a stored code is overwritten by the new row.
save_shipment_replace(db, qr_code, imei, device_name, capacity, supplier, created_by, notes, image_url, sync) ==
    LET hits == Indices(db.ShipmentDetails, qr_code)
        shipment_id == IF hits = {} THEN Len(db.ShipmentDetails) + 1
                       ELSE CHOOSE i \in hits : TRUE
        now == db.clock + 1
        row == NewRow(shipment_id, qr_code, imei, device_name, capacity,
                      supplier, created_by, notes, image_url, now)
        rows == IF hits = {} THEN Append(db.ShipmentDetails, row)
                ELSE [db.ShipmentDetails EXCEPT ![shipment_id] = row]
        log == log_audit(db.AuditLog, shipment_id, "CREATED", None,
                         "Created shipment: " \o qr_code, created_by)
        sheet == sync_shipment_to_sheets(db.worksheet, rows, shipment_id,
                                         TRUE, sync)
    IN  Returned(Db(rows, log, sheet, now),
                 [success |-> TRUE, id |-> shipment_id, error |-> None])

save_shipment(db, qr_code, imei, device_name, capacity, supplier, created_by, notes, image_url, sync) ==
    IF Indices(db.ShipmentDetails, qr_code) # {}
    THEN \* UNIQUE(qr_code) violated: sqlite3.IntegrityError
         Returned(db, [success |-> FALSE, id |-> 0, error |-> ERR_DUPLICATE])
    ELSE LET shipment_id == Len(db.ShipmentDetails) + 1
             now == db.clock + 1
             rows == Append(db.ShipmentDetails,
                            NewRow(shipment_id, qr_code, imei, device_name,
                                   capacity, supplier, created_by, notes,
                                   image_url, now))
             log == log_audit(db.AuditLog, shipment_id, "CREATED", None,
                              "Created shipment: " \o qr_code, created_by)
             sheet == sync_shipment_to_sheets(db.worksheet, rows, shipment_id,
                                              TRUE, sync)
         IN  Returned(Db(rows, log, sheet, now),
                      [success |-> TRUE, id |-> shipment_id, error |-> None])

\* Variant: the edit stores the status and never stamps received_time.
EditedRow_no_stamp(row, qr_code, imei, device_name, capacity, supplier, status, notes, updated_by, image_url, telegram_message_id, now) ==
    [row EXCEPT
       !.qr_code = IF qr_code # None THEN qr_code ELSE @,
       !.imei = IF imei # None THEN imei ELSE @,
       !.device_name = IF device_name # None THEN device_name ELSE @,
       !.capacity = IF capacity # None THEN capacity ELSE @,
       !.supplier = IF supplier # None THEN supplier ELSE @,
       !.status = IF status # None THEN status ELSE @,
       !.notes = IF notes # None THEN notes ELSE @,
       !.updated_by = IF updated_by # None THEN updated_by ELSE @,
       !.image_url = IF image_url # None THEN image_url ELSE @,
       !.telegram_message_id =
           IF telegram_message_id # 0 THEN telegram_message_id ELSE @]

\* The SET clause built by update_shipment (database.py:192-227): an argument
\* that is None leaves its column alone.
EditedRow(row, qr_code, imei, device_name, capacity, supplier, status, notes, updated_by, image_url, telegram_message_id, now) ==
    [row EXCEPT
       !.qr_code = IF qr_code # None THEN qr_code ELSE @,
       !.imei = IF imei # None THEN imei ELSE @,
       !.device_name = IF device_name # None THEN device_name ELSE @,
       !.capacity = IF capacity # None THEN capacity ELSE @,
       !.supplier = IF supplier # None THEN supplier ELSE @,
       !.status = IF status # None THEN status ELSE @,
       !.received_time = IF status # None /\ status = DA_NHAN THEN now ELSE @,
       !.notes = IF notes # None THEN notes ELSE @,
       !.updated_by = IF updated_by # None THEN updated_by ELSE @,
       !.image_url = IF image_url # None THEN image_url ELSE @,
       !.telegram_message_id =
           IF telegram_message_id # 0 THEN telegram_message_id ELSE @]

\* Variant: the column qr_code is not declared UNIQUE.
EditViolatesUnique_off(rows, shipment_id, qr_code) == FALSE

\* UPDATE ... WHERE id = ? would give two rows the same qr_code.
EditViolatesUnique(rows, shipment_id, qr_code) ==
    /\ shipment_id \in 1..Len(rows)
    /\ qr_code # None
    /\ \E j \in 1..Len(rows) : j # shipment_id /\ rows[j].qr_code = qr_code

update_shipment(db, shipment_id, qr_code, imei, device_name, capacity, supplier, status, notes, updated_by, image_url, telegram_message_id, sync) ==
    IF /\ qr_code = None /\ imei = None /\ device_name = None
       /\ capacity = None /\ supplier = None /\ status = None /\ notes = None
       /\ updated_by = None /\ image_url = None /\ telegram_message_id = 0
    THEN Returned(db, [success |-> FALSE, error |-> "Khong co thong tin"])
    ELSE IF EditViolatesUnique(db.ShipmentDetails, shipment_id, qr_code)
    THEN Returned(db, [success |-> FALSE, error |-> ERR_DUPLICATE])
    ELSE LET reads_clock == status # None /\ status = DA_NHAN
             now == db.clock + 1
             rows == IF shipment_id \in 1..Len(db.ShipmentDetails)
                     THEN [db.ShipmentDetails EXCEPT ![shipment_id] =
                              EditedRow(@, qr_code, imei, device_name,
                                        capacity, supplier, status, notes,
                                        updated_by, image_url,
                                        telegram_message_id, now)]
                     ELSE db.ShipmentDetails
             log == log_audit(db.AuditLog, shipment_id, "UPDATED", None,
                              "Shipment information updated",
                              IF updated_by # None THEN updated_by
                                                   ELSE "system")
             sheet == sync_shipment_to_sheets(db.worksheet, rows, shipment_id,
                                              FALSE, sync)
         IN  Returned(Db(rows, log, sheet,
                         IF reads_clock THEN now ELSE db.clock),
                      [success |-> TRUE, error |-> None])

\* Variant: received_time is stamped on every transition.
StatusUpdatedRow_stamp_always(row, new_status, updated_by, notes, now) ==
    [row EXCEPT
       !.status = new_status,
       !.updated_by = updated_by,
       !.received_time = now,
       !.notes = IF notes # None THEN notes ELSE @]

\* Variant: received_time is cleared when the row leaves 'Đã nhận'.
StatusUpdatedRow_clears(row, new_status, updated_by, notes, now) ==
    [row EXCEPT
       !.status = new_status,
       !.updated_by = updated_by,
       !.received_time = IF new_status = DA_NHAN THEN now ELSE 0,
       !.notes = IF notes # None THEN notes ELSE @]

\* Variant: the notes argument is stored whatever it is.
StatusUpdatedRow_notes_always(row, new_status, updated_by, notes, now) ==
    [row EXCEPT
       !.status = new_status,
       !.updated_by = updated_by,
       !.received_time = IF new_status = DA_NHAN THEN now ELSE @,
       !.notes = notes]

\* update_fields of update_shipment_status (database.py:293-304) applied to
\* the row: status and updated_by always, received_time when the new status
\* is 'Đã nhận', notes when truthy.
StatusUpdatedRow(row, new_status, updated_by, notes, now) ==
    [row EXCEPT
       !.status = new_status,
       !.updated_by = updated_by,
       !.received_time = IF new_status = DA_NHAN THEN now ELSE @,
       !.notes = IF notes \notin {None, ""} THEN notes ELSE @]

\* Variant: the sync call is not wrapped in its own try/except, so an
\* exception it raises reaches the outer handler after the commit.
update_shipment_status_sync_fatal(db, qr_code, new_status, updated_by, notes, sync) ==
    LET found == get_shipment_by_qr_code(db.ShipmentDetails, qr_code)
    IN  IF found = <<>>
        THEN Returned(db, [success |-> FALSE, error |-> ERR_NOT_FOUND])
        ELSE LET shipment_id == found[1].id
                 old_status == found[1].status
                 now == db.clock + 1
                 rows == [db.ShipmentDetails EXCEPT ![shipment_id] =
                             StatusUpdatedRow(@, new_status, updated_by,
                                              notes, now)]
                 log == log_audit(db.AuditLog, shipment_id, "STATUS_CHANGED",
                                  old_status, new_status, updated_by)
             IN  Returned(Db(rows, log, db.worksheet,
                             IF new_status = DA_NHAN THEN now ELSE db.clock),
                          IF sync = "raise"
                          THEN [success |-> FALSE, error |-> "sync"]
                          ELSE [success |-> TRUE, error |-> None])

\* Variant: a code that matches no record is logged and reported as done.
update_shipment_status_missing_ok(db, qr_code, new_status, updated_by, notes, sync) ==
    LET found == get_shipment_by_qr_code(db.ShipmentDetails, qr_code)
    IN  IF found = <<>>
        THEN Returned(Db(db.ShipmentDetails,
                         log_audit(db.AuditLog, 0, "STATUS_CHANGED", None,
                                   new_status, updated_by),
                         db.worksheet, db.clock),
                      [success |-> TRUE, error |-> None])
        ELSE LET shipment_id == found[1].id
                 old_status == found[1].status
                 now == db.clock + 1
                 rows == [db.ShipmentDetails EXCEPT ![shipment_id] =
                             StatusUpdatedRow(@, new_status, updated_by,
                                              notes, now)]
                 log == log_audit(db.AuditLog, shipment_id, "STATUS_CHANGED",
                                  old_status, new_status, updated_by)
                 sheet == sync_shipment_to_sheets(db.worksheet, rows,
                                                  shipment_id, FALSE, sync)
             IN  Returned(Db(rows, log, sheet,
                             IF new_status = DA_NHAN THEN now ELSE db.clock),
                          [success |-> TRUE, error |-> None])

update_shipment_status(db, qr_code, new_status, updated_by, notes, sync) ==
    LET found == get_shipment_by_qr_code(db.ShipmentDetails, qr_code)
    IN  IF found = <<>>
        THEN Returned(db, [success |-> FALSE, error |-> ERR_NOT_FOUND])
        ELSE LET shipment_id == found[1].id
                 old_status == found[1].status
                 now == db.clock + 1
                 rows == [db.ShipmentDetails EXCEPT ![shipment_id] =
                             StatusUpdatedRow(@, new_status, updated_by,
                                              notes, now)]
                 log == log_audit(db.AuditLog, shipment_id, "STATUS_CHANGED",
                                  old_status, new_status, updated_by)
                 sheet == sync_shipment_to_sheets(db.worksheet, rows,
                                                  shipment_id, FALSE, sync)
             IN  Returned(Db(rows, log, sheet,
                             IF new_status = DA_NHAN THEN now ELSE db.clock),
                          [success |-> TRUE, error |-> None])

\* database.py:497-514
update_telegram_message(rows, shipment_id, message_id) ==
    IF shipment_id \in 1..Len(rows)
    THEN [rows EXCEPT ![shipment_id].telegram_message_id = message_id]
    ELSE rows

----------------------------------------------------------------------------
(* telegram_helpers.py: notify_shipment_if_received *)

\* Variant: a message id already stored does not stop the call.
notify_shipment_if_received_resend(rows, calls, shipment_id, force, is_update_image, photo, text) ==
    LET shipment == get_shipment_by_id(rows, shipment_id)
        skip == [ShipmentDetails |-> rows, telegram_calls |-> calls,
                 sent |-> FALSE]
    IN  IF shipment = <<>> THEN skip
        ELSE IF shipment[1].status # DA_NHAN THEN skip
        ELSE LET has_image == shipment[1].image_url # None
                 requests == IF has_image /\ photo # "ok" THEN 2 ELSE 1
                 success == IF has_image
                            THEN photo = "ok" \/ text = "ok"
                            ELSE text = "ok"
                 message_id == calls + requests
             IN  [ShipmentDetails |->
                      IF success
                      THEN update_telegram_message(rows, shipment_id,
                                                   message_id)
                      ELSE rows,
                  telegram_calls |-> calls + requests,
                  sent |-> success]

\* Returns the table after the call, the number of Telegram requests made by
\* the call and whether a request succeeded.  photo and text are the
\* outcomes of send_photo and send_text should they be called.  The argument
\* force is accepted and never read (telegram_helpers.py:26-44).
notify_shipment_if_received(rows, calls, shipment_id, force, is_update_image, photo, text) ==
    LET shipment == get_shipment_by_id(rows, shipment_id)
        skip == [ShipmentDetails |-> rows, telegram_calls |-> calls,
                 sent |-> FALSE]
    IN  IF shipment = <<>> THEN skip
        ELSE IF shipment[1].status # DA_NHAN THEN skip
        ELSE LET already_sent == shipment[1].telegram_message_id # 0
                 has_image == shipment[1].image_url # None
             IN  IF already_sent /\ ~(is_update_image /\ has_image) THEN skip
                 ELSE LET requests == IF has_image /\ photo # "ok"
                                      THEN 2 ELSE 1
                          success == IF has_image
                                     THEN photo = "ok" \/ text = "ok"
                                     ELSE text = "ok"
                          \* Telegram numbers the messages of the chat
                          message_id == calls + requests
                      IN  [ShipmentDetails |->
                               IF success
                               THEN update_telegram_message(rows, shipment_id,
                                                            message_id)
                               ELSE rows,
                           telegram_calls |-> calls + requests,
                           sent |-> success]

----------------------------------------------------------------------------
(* app.py: the handlers *)

\* get_current_user() (auth.py:98-105); require_login lets the page run
\* only for a logged-in session (app.py:1323-1324).
current_user == username

\* What a handler records about the database operation it ran.
Call(op, shipment_id, qr_code, status, by) ==
    [op |-> op, shipment_id |-> shipment_id, qr_code |-> qr_code,
     status |-> status, by |-> by]

NoCall(op) == Call(op, 0, None, None, None)

Ok == [success |-> TRUE, error |-> None]

CurrentDb == Db(ShipmentDetails, AuditLog, worksheet, clock)

\* Room left for one more audit row.
CanWrite == Len(AuditLog) < MaxAudit

\* The rows that hold the received status of config.py / database.py.
ReceivedIds(rows) == {i \in 1..Len(rows) : rows[i].status = DA_NHAN}

Commit(r) ==
    /\ AuditLog' = r.AuditLog
    /\ UNCHANGED <<username, side_vars>>
    /\ worksheet' = r.worksheet
    /\ clock' = r.clock
    /\ result' = [success |-> r.result.success, error |-> r.result.error]

Init ==
    /\ ShipmentDetails = <<>>
    /\ AuditLog = <<>>
    /\ worksheet = <<>>
    /\ clock = 0
    /\ telegram_calls = 0
    /\ username \in Users
    /\ found_shipment = <<>>
    /\ was_received = {}
    /\ last_call = NoCall("init")
    /\ result = Ok
    /\ ScanIdle
    /\ AuthIdle
    /\ SuppliersIdle
    /\ SessionsIdle
    /\ AccountsIdle

\* scan_qr_screen (app.py:196-210): the decoded code belongs to a stored
\* shipment, which is kept in the session.
ScanExisting(qr_code) ==
    /\ found_shipment = <<>>
    /\ get_shipment_by_qr_code(ShipmentDetails, qr_code) # <<>>
    /\ found_shipment' =
         SessionCopy(get_shipment_by_qr_code(ShipmentDetails, qr_code))
    /\ last_call' = NoCall("scan")
    /\ result' = Ok
    /\ UNCHANGED <<ShipmentDetails, AuditLog, worksheet, clock,
                   telegram_calls, username, was_received>>
    /\ UNCHANGED side_vars

\* show_shipment_info (app.py:310-314): the rescan button.
Rescan ==
    /\ found_shipment # <<>>
    /\ found_shipment' = <<>>
    /\ last_call' = NoCall("scan")
    /\ result' = Ok
    /\ UNCHANGED <<ShipmentDetails, AuditLog, worksheet, clock,
                   telegram_calls, username, was_received>>
    /\ UNCHANGED side_vars

\* show_create_shipment_form (app.py:475-530): the save button.  The form is
\* only drawn while no found shipment is in the session (app.py:167-175); all
\* four text fields are editable.  upload is "none" when no file was chosen
\* and "ok" when upload_file_to_drive returned a URL.
CreateShipment(qr_code, imei, device_name, capacity, supplier, notes, upload, sync) ==
    /\ found_shipment = <<>>
    /\ CanWrite
    /\ LET image_url == IF upload = "ok"
                        THEN CHOOSE u \in ImageUrls : TRUE ELSE None
           r == save_shipment(CurrentDb, qr_code, imei, device_name, capacity,
                              supplier, current_user, notes, image_url, sync)
           \* app.py:520: STATUS_VALUES[0] == <received literal>
           notifies == r.result.success /\ STATUS_VALUES[1] = APP_DA_NHAN
       IN  /\ Commit(r)
           /\ last_call' = Call("save_shipment", 0, qr_code, None, current_user)
           /\ IF notifies
              THEN \E photo \in SendOutcomes, text \in SendOutcomes :
                     LET n == notify_shipment_if_received(
                                  r.ShipmentDetails, telegram_calls,
                                  r.result.id, TRUE, FALSE, photo, text)
                     IN  /\ ShipmentDetails' = n.ShipmentDetails
                         /\ telegram_calls' = n.telegram_calls
              ELSE /\ ShipmentDetails' = r.ShipmentDetails
                   /\ UNCHANGED telegram_calls
           /\ UNCHANGED found_shipment
           /\ was_received' = was_received \cup ReceivedIds(ShipmentDetails')

\* The same button when upload_file_to_drive fails (app.py:501-503):
\* st.error and st.stop(), save_shipment is not reached.
CreateShipmentUploadFails ==
    /\ found_shipment = <<>>
    /\ last_call' = NoCall("upload_file_to_drive")
    /\ result' = [success |-> FALSE, error |-> "upload"]
    /\ UNCHANGED <<ShipmentDetails, AuditLog, worksheet, clock,
                   telegram_calls, username, found_shipment, was_received>>
    /\ UNCHANGED side_vars

\* show_shipment_info (app.py:322-343): the "mark received" button, drawn
\* when the displayed status differs from the literal of app.py:323.
MarkReceived(sync) ==
    /\ found_shipment # <<>>
    /\ CanWrite
    /\ found_shipment[1].status # APP_DA_NHAN
    /\ LET shipment == found_shipment[1]
           r == update_shipment_status(CurrentDb, shipment.qr_code,
                                       APP_DA_NHAN, current_user, None, sync)
       IN  /\ Commit(r)
           /\ last_call' = Call("update_shipment_status", 0,
                                shipment.qr_code, APP_DA_NHAN, current_user)
           /\ IF r.result.success
              THEN \E photo \in SendOutcomes, text \in SendOutcomes :
                     LET n == notify_shipment_if_received(
                                  r.ShipmentDetails, telegram_calls,
                                  shipment.id, TRUE, FALSE, photo, text)
                     IN  /\ ShipmentDetails' = n.ShipmentDetails
                         /\ telegram_calls' = n.telegram_calls
                         /\ found_shipment' =
                              SessionCopy(get_shipment_by_qr_code(
                                  n.ShipmentDetails, shipment.qr_code))
              ELSE /\ ShipmentDetails' = r.ShipmentDetails
                   /\ UNCHANGED <<telegram_calls, found_shipment>>
           /\ was_received' = was_received \cup ReceivedIds(ShipmentDetails')

\* show_shipment_info (app.py:345-376): the status select box and the update
\* button.  The request is made when the selected status differs from the
\* status of the copy held in the session.
UpdateStatus(new_status, notes, sync) ==
    /\ found_shipment # <<>>
    /\ CanWrite
    /\ new_status # found_shipment[1].status
    /\ LET shipment == found_shipment[1]
           r == update_shipment_status(CurrentDb, shipment.qr_code,
                                       new_status, current_user, notes, sync)
           notifies == r.result.success /\ new_status = APP_DA_NHAN
       IN  /\ Commit(r)
           /\ last_call' = Call("update_shipment_status", 0,
                                shipment.qr_code, new_status, current_user)
           /\ IF notifies
              THEN \E photo \in SendOutcomes, text \in SendOutcomes :
                     LET n == notify_shipment_if_received(
                                  r.ShipmentDetails, telegram_calls,
                                  shipment.id, TRUE, FALSE, photo, text)
                     IN  /\ ShipmentDetails' = n.ShipmentDetails
                         /\ telegram_calls' = n.telegram_calls
              ELSE /\ ShipmentDetails' = r.ShipmentDetails
                   /\ UNCHANGED telegram_calls
           /\ found_shipment' =
                IF r.result.success
                THEN SessionCopy(get_shipment_by_qr_code(
                                     ShipmentDetails', shipment.qr_code))
                ELSE found_shipment
           /\ was_received' = was_received \cup ReceivedIds(ShipmentDetails')

\* show_manage_shipments (app.py:1001-1054): the edit form of one listed row.
\* The row is the one get_all_shipments returned for this run of the page.
EditShipment(shipment_id, edit_qr_code, edit_imei, edit_device_name, edit_capacity, edit_supplier, edit_status, edit_notes, upload, sync) ==
    /\ shipment_id \in 1..Len(ShipmentDetails)
    /\ CanWrite
    /\ LET row == ShipmentDetails[shipment_id]
           image_url == IF upload = "ok"
                        THEN CHOOSE u \in ImageUrls : TRUE
                        ELSE row.image_url
           r == update_shipment(CurrentDb, shipment_id, edit_qr_code,
                                edit_imei, edit_device_name, edit_capacity,
                                edit_supplier, edit_status, edit_notes,
                                current_user, image_url, 0, sync)
           updated == get_shipment_by_qr_code(r.ShipmentDetails, edit_qr_code)
           notifies == /\ r.result.success
                       /\ updated # <<>>
                       /\ updated[1].status = APP_DA_NHAN
       IN  /\ Commit(r)
           /\ last_call' = Call("update_shipment", shipment_id,
                                edit_qr_code, edit_status, current_user)
           /\ IF notifies
              THEN \E photo \in SendOutcomes, text \in SendOutcomes :
                     LET n == notify_shipment_if_received(
                                  r.ShipmentDetails, telegram_calls,
                                  updated[1].id, row.telegram_message_id = 0,
                                  upload # "none", photo, text)
                     IN  /\ ShipmentDetails' = n.ShipmentDetails
                         /\ telegram_calls' = n.telegram_calls
              ELSE /\ ShipmentDetails' = r.ShipmentDetails
                   /\ UNCHANGED telegram_calls
           /\ UNCHANGED found_shipment
           /\ was_received' = was_received \cup ReceivedIds(ShipmentDetails')

\* The same form when upload_file_to_drive fails (app.py:1020-1022):
\* st.error and st.stop(), update_shipment is not reached.
EditShipmentUploadFails ==
    /\ ShipmentDetails # <<>>
    /\ last_call' = NoCall("upload_file_to_drive")
    /\ result' = [success |-> FALSE, error |-> "upload"]
    /\ UNCHANGED <<ShipmentDetails, AuditLog, worksheet, clock,
                   telegram_calls, username, found_shipment, was_received>>
    /\ UNCHANGED side_vars

Next ==
    \/ \E qr_code \in QrCodes : ScanExisting(qr_code)
    \/ Rescan
    \/ \E qr_code \in QrCodes, imei \in Imeis, device_name \in DeviceNames,
          capacity \in Capacities, supplier \in Suppliers,
          notes \in CreateNotes, upload \in CreateUploads,
          sync \in SyncOutcomes :
         CreateShipment(qr_code, imei, device_name, capacity, supplier, notes,
                        upload, sync)
    \/ CreateShipmentUploadFails
    \/ \E sync \in SyncOutcomes : MarkReceived(sync)
    \/ \E new_status \in StatusSet, notes \in StatusNotes,
          sync \in SyncOutcomes :
         UpdateStatus(new_status, notes, sync)
    \/ \E shipment_id \in 1..Cardinality(QrCodes), edit_qr_code \in QrCodes,
          edit_imei \in Imeis, edit_device_name \in DeviceNames,
          edit_capacity \in Capacities, edit_supplier \in Suppliers,
          edit_status \in StatusSet, edit_notes \in EditNotes,
          upload \in EditUploads, sync \in SyncOutcomes :
         EditShipment(shipment_id, edit_qr_code, edit_imei, edit_device_name,
                      edit_capacity, edit_supplier, edit_status, edit_notes,
                      upload, sync)
    \/ EditShipmentUploadFails

Spec == Init /\ [][Next]_vars

----------------------------------------------------------------------------
(* Properties *)

\* The step ran update_shipment_status and it returned success.
TransitionApplied ==
    /\ last_call'.op = "update_shipment_status"
    /\ result'.success

\* The row the request of this step names, as stored before the step.
TargetBefore == get_shipment_by_qr_code(ShipmentDetails, last_call'.qr_code)

C2_SameStatusRejected ==
    [][(/\ last_call'.op = "update_shipment_status"
        /\ TargetBefore # <<>>
        /\ TargetBefore[1].status = last_call'.status)
       => /\ ~result'.success
          /\ ShipmentDetails' = ShipmentDetails
          /\ AuditLog' = AuditLog]_vars

\* C3: in every state a row has a received_time exactly when its status has
\* been the received status at some point.
C3_ReceivedTimeIffEverReceived ==
    \A i \in 1..Len(ShipmentDetails) :
        (ShipmentDetails[i].received_time # 0) <=> (i \in was_received)

\* A row that was received and has since moved to another status.
C3_Witness ==
    \E i \in 1..Len(ShipmentDetails) :
        /\ i \in was_received
        /\ ShipmentDetails[i].status # DA_NHAN
        /\ ShipmentDetails[i].received_time # 0

\* C4: an applied transition stores the requested status, and stamps
\* received_time with the current time exactly when the requested status is
\* the received one; otherwise received_time is not written.
C4_StampIffReceived ==
    [][TransitionApplied =>
         /\ TargetBefore # <<>>
         /\ LET i == TargetBefore[1].id
            IN  /\ ShipmentDetails'[i].status = last_call'.status
                /\ IF last_call'.status = DA_NHAN
                   THEN /\ clock' = clock + 1
                        /\ ShipmentDetails'[i].received_time = clock'
                   ELSE /\ clock' = clock
                        /\ ShipmentDetails'[i].received_time =
                             ShipmentDetails[i].received_time]_vars

\* A transition to the received status has just stamped the row.
C4_Witness ==
    /\ last_call.op = "update_shipment_status"
    /\ result.success
    /\ last_call.status = DA_NHAN
    /\ \E i \in 1..Len(ShipmentDetails) :
          /\ ShipmentDetails[i].qr_code = last_call.qr_code
          /\ ShipmentDetails[i].status = DA_NHAN
          /\ ShipmentDetails[i].received_time = clock

\* C5: once a row has a received_time, a transition to a status other than
\* the received one leaves that received_time as it was.
C5_StampKept ==
    [][(/\ TransitionApplied
        /\ last_call'.status # DA_NHAN
        /\ TargetBefore # <<>>
        /\ TargetBefore[1].id \in was_received)
       => /\ ShipmentDetails'[TargetBefore[1].id].received_time =
               TargetBefore[1].received_time
          /\ TargetBefore[1].received_time # 0]_vars

\* A received row has just been moved to damaged or lost by a transition.
C5_Witness ==
    /\ last_call.op = "update_shipment_status"
    /\ result.success
    /\ last_call.status \in {HU_HONG, MAT}
    /\ \E i \in was_received :
          /\ ShipmentDetails[i].qr_code = last_call.qr_code
          /\ ShipmentDetails[i].status = last_call.status
          /\ ShipmentDetails[i].received_time # 0
          /\ AuditLog[Len(AuditLog)].old_value = DA_NHAN

\* C6: received_time is written only by a step that moves the row from a
\* status other than received into received; a row that is received and stays
\* received keeps its received_time.
C6_StampOnlyOnEntry ==
    [][\A i \in 1..Len(ShipmentDetails) :
          ShipmentDetails'[i].received_time # ShipmentDetails[i].received_time
          => /\ ShipmentDetails[i].status # DA_NHAN
             /\ ShipmentDetails'[i].status = DA_NHAN]_vars

\* C7: save_shipment with a code that is already stored returns the
\* duplicate-code failure, adds no row and no audit row and changes no row.
C7_DuplicateSaveRejected ==
    [][(/\ last_call'.op = "save_shipment"
        /\ Indices(ShipmentDetails, last_call'.qr_code) # {})
       => /\ ~result'.success
          /\ result'.error = ERR_DUPLICATE
          /\ ShipmentDetails' = ShipmentDetails
          /\ AuditLog' = AuditLog]_vars

\* A save with a stored code has just been refused.
C7_Witness ==
    /\ last_call.op = "save_shipment"
    /\ ~result.success
    /\ result.error = ERR_DUPLICATE
    /\ Indices(ShipmentDetails, last_call.qr_code) # {}

UniqueCodes(rows) ==
    \A i, j \in 1..Len(rows) : rows[i].qr_code = rows[j].qr_code => i = j

\* C8: no two rows ever share a qr_code, and an update_shipment that would
\* give a row the code of another row fails and changes nothing.
C8_CodesUnique ==
    /\ [] UniqueCodes(ShipmentDetails)
    /\ [][(/\ last_call'.op = "update_shipment"
           /\ \E j \in 1..Len(ShipmentDetails) :
                 /\ j # last_call'.shipment_id
                 /\ ShipmentDetails[j].qr_code = last_call'.qr_code)
          => /\ ~result'.success
             /\ ShipmentDetails' = ShipmentDetails
             /\ AuditLog' = AuditLog]_vars

\* An edit that asked for the code of the other row has just been refused.
C8_Witness ==
    /\ last_call.op = "update_shipment"
    /\ ~result.success
    /\ result.error = ERR_DUPLICATE
    /\ Len(ShipmentDetails) = 2
    /\ ShipmentDetails[1].qr_code # ShipmentDetails[2].qr_code

\* C9: every successful update_shipment_status that moves a row into the
\* received status is accompanied by a Telegram request, whatever was sent
\* for the row before.
C9_ReceivedNotified ==
    [][(/\ TransitionApplied
        /\ last_call'.status = DA_NHAN
        /\ TargetBefore # <<>>
        /\ TargetBefore[1].status # DA_NHAN)
       => telegram_calls' > telegram_calls]_vars

\* The rows with the stored Telegram message id blanked.
StripMessageId(rows) ==
    [i \in 1..Len(rows) |-> [rows[i] EXCEPT !.telegram_message_id = 0]]

\* What an operation returned and left in the database, the worksheet
\* aside.
DbEffect(r) == [r EXCEPT !.worksheet = <<>>]

\* C10: in every state, whatever save_shipment, update_shipment_status or
\* update_shipment is asked to do, a failing or raising Sheets sync gives the
\* same result and the same shipment and audit tables as a sync that
\* succeeds; and a failing Telegram request leaves the shipment table as a
\* successful one does, the stored message id aside.
C10_ExternalFailureIsolated ==
    LET imei == CHOOSE x \in Imeis : TRUE
        device_name == CHOOSE x \in DeviceNames : TRUE
        capacity == CHOOSE x \in Capacities : TRUE
        supplier == CHOOSE x \in Suppliers : TRUE
    IN
    /\ \A qr_code \in QrCodes :
         /\ LET saved == DbEffect(save_shipment(
                             CurrentDb, qr_code, imei, device_name, capacity,
                             supplier, current_user, None, None, "ok"))
            IN  \A sync \in SyncOutcomes \ {"ok"} :
                  DbEffect(save_shipment(
                      CurrentDb, qr_code, imei, device_name, capacity,
                      supplier, current_user, None, None, sync)) = saved
         /\ \A status \in StatusSet \cup {APP_DA_NHAN} :
              LET updated == DbEffect(update_shipment_status(
                                 CurrentDb, qr_code, status, current_user,
                                 None, "ok"))
              IN  \A sync \in SyncOutcomes \ {"ok"} :
                    DbEffect(update_shipment_status(
                        CurrentDb, qr_code, status, current_user, None,
                        sync)) = updated
         /\ \A status \in {DEFAULT_STATUS, DA_NHAN} :
              \A shipment_id \in 1..Len(ShipmentDetails) :
                   LET edited == DbEffect(update_shipment(
                                    CurrentDb, shipment_id, qr_code, imei,
                                    device_name, capacity, supplier, status,
                                    None, current_user, None, 0, "ok"))
                   IN  \A sync \in SyncOutcomes \ {"ok"} :
                         DbEffect(update_shipment(
                             CurrentDb, shipment_id, qr_code, imei,
                             device_name, capacity, supplier, status, None,
                             current_user, None, 0, sync)) = edited
    /\ \A shipment_id \in 1..Len(ShipmentDetails), force \in BOOLEAN,
          is_update_image \in BOOLEAN :
         LET sent == StripMessageId(notify_shipment_if_received(
                         ShipmentDetails, telegram_calls, shipment_id, force,
                         is_update_image, "ok", "ok").ShipmentDetails)
         IN  \A photo \in SendOutcomes, text \in SendOutcomes :
               StripMessageId(notify_shipment_if_received(
                   ShipmentDetails, telegram_calls, shipment_id, force,
                   is_update_image, photo, text).ShipmentDetails) = sent

\* A transition has returned success and changed the row although no sync
\* of the shipment has reached the worksheet.
C10_Witness ==
    /\ last_call.op = "update_shipment_status"
    /\ result.success
    /\ \E i \in 1..Len(ShipmentDetails) :
          /\ ShipmentDetails[i].qr_code = last_call.qr_code
          /\ ShipmentDetails[i].status = last_call.status
          /\ find_row_by_id(worksheet, i) = 0
          /\ AuditLog[Len(AuditLog)].shipment_id = i
          /\ AuditLog[Len(AuditLog)].action = "STATUS_CHANGED"

----------------------------------------------------------------------------
(* Image upload *)

\* C11: a step in which the image upload of the create or edit form fails
\* still performs the primary write: the tables do not stay as they were and
\* the handler does not report a failure.
C11_UploadFailureNotFatal ==
    [][(last_call'.op = "upload_file_to_drive")
       => /\ result'.success
          /\ AuditLog' # AuditLog
          /\ ShipmentDetails' # ShipmentDetails]_vars

----------------------------------------------------------------------------
(* qr_scanner.py: parse_qr_code *)

\* A Python str is the sequence of its characters; '' is <<>>.  The characters
\* that matter to parse_qr_code: the separator, a whitespace character and any
\* other character.
Chars == {"a", " ", ","}
Whitespace == {" "}

\* Longest input string handed to parse_qr_code.
MaxLen == 4
\* Longest field value of a serialized record.
MaxFieldLen == 1

StringsUpTo(n) == UNION {[1..k -> Chars] : k \in 0..n}

\* str.split(sep): cut at every occurrence of sep, from the left.
RECURSIVE split(_, _)
split(s, sep) ==
    IF \A k \in 1..Len(s) : s[k] # sep
    THEN <<s>>
    ELSE LET k == CHOOSE k \in 1..Len(s) :
                      s[k] = sep /\ \A j \in 1..(k - 1) : s[j] # sep
         IN  <<SubSeq(s, 1, k - 1)>> \o split(SubSeq(s, k + 1, Len(s)), sep)

RECURSIVE lstrip(_)
lstrip(s) == IF s # <<>> /\ Head(s) \in Whitespace THEN lstrip(Tail(s)) ELSE s

RECURSIVE rstrip(_)
rstrip(s) == IF s # <<>> /\ s[Len(s)] \in Whitespace THEN rstrip(SubSeq(s, 1, Len(s) - 1)) ELSE s

\* Variant: only leading whitespace is removed.
strip_left_only(s) == lstrip(s)

\* str.strip()
strip(s) == rstrip(lstrip(s))

\* while len(parts) < 4: parts.append('')  (qr_scanner.py:297-298)
RECURSIVE Pad(_)
Pad(parts) == IF Len(parts) < 4 THEN Pad(Append(parts, <<>>)) ELSE parts

\* Variant: an input with fewer than four segments is answered with None.
parse_qr_code_short_is_none(present, qr_string) ==
    IF ~present \/ qr_string = <<>>
    THEN <<>>
    ELSE LET cut == split(qr_string, ",")
             parts == Pad([i \in 1..Len(cut) |-> strip(cut[i])])
         IN  IF Len(cut) < 4
             THEN <<>>
             ELSE <<[qr_code |-> parts[1], imei |-> parts[2],
                     device_name |-> parts[3], capacity |-> parts[4]]>>

\* Variant: the second and third segments are stored in each other's field.
parse_qr_code_swapped(present, qr_string) ==
    IF ~present \/ qr_string = <<>>
    THEN <<>>
    ELSE LET cut == split(qr_string, ",")
             parts == Pad([i \in 1..Len(cut) |-> strip(cut[i])])
         IN  <<[qr_code |-> parts[1], imei |-> parts[3],
                device_name |-> parts[2], capacity |-> parts[4]]>>

\* parse_qr_code (qr_scanner.py:273-310).  present is FALSE for the argument
\* None.  Returns <<>> for None and <<dict>> for the dictionary.
parse_qr_code(present, qr_string) ==
    IF ~present \/ qr_string = <<>>
    THEN <<>>
    ELSE LET cut == split(qr_string, ",")
             parts == Pad([i \in 1..Len(cut) |-> strip(cut[i])])
         IN  <<[qr_code |-> parts[1], imei |-> parts[2],
                device_name |-> parts[3], capacity |-> parts[4]]>>

\* ','.join of the four field values of a record.
Serialize(record) ==
    record.qr_code \o <<",">> \o record.imei \o <<",">> \o record.device_name \o <<",">> \o record.capacity

Records ==
    [qr_code : StringsUpTo(MaxFieldLen), imei : StringsUpTo(MaxFieldLen),
     device_name : StringsUpTo(MaxFieldLen),
     capacity : StringsUpTo(MaxFieldLen)]

AppIdle ==
    /\ ShipmentDetails = <<>>
    /\ AuditLog = <<>>
    /\ worksheet = <<>>
    /\ clock = 0
    /\ telegram_calls = 0
    /\ username \in Users
    /\ found_shipment = <<>>
    /\ was_received = {}

\* The argument is None, any string up to MaxLen, or the serialization of a
\* record, which is remembered with the call.
InitParse ==
    /\ AppIdle
    /\ ScanIdle
    /\ AuthIdle
    /\ SuppliersIdle
    /\ SessionsIdle
    /\ AccountsIdle
    /\ result = <<>>
    /\ \/ \E present \in BOOLEAN, qr_string \in StringsUpTo(MaxLen) :
            /\ present \/ qr_string = <<>>
            /\ last_call = [op |-> "input", present |-> present,
                            qr_string |-> qr_string, record |-> <<>>]
       \/ \E record \in Records :
            last_call = [op |-> "input", present |-> TRUE,
                         qr_string |-> Serialize(record),
                         record |-> <<record>>]

ParseQrCode ==
    /\ last_call.op = "input"
    /\ last_call' = [last_call EXCEPT !.op = "parse_qr_code"]
    /\ result' = parse_qr_code(last_call.present, last_call.qr_string)
    /\ UNCHANGED <<app_vars, side_vars>>

NextParse == ParseQrCode

SpecParse == InitParse /\ [][NextParse]_vars

Parsed == last_call.op = "parse_qr_code"

\* C12: a non-empty string is answered with a dictionary of exactly the four
\* keys; the empty string and None are answered with None.
C12_FourFieldsOrNone ==
    Parsed =>
       IF last_call.present /\ last_call.qr_string # <<>>
       THEN /\ Len(result) = 1
            /\ DOMAIN result[1] = {"qr_code", "imei", "device_name", "capacity"}
       ELSE result = <<>>

\* A string without a comma has been parsed into a dictionary.
C12_Witness ==
    /\ Parsed
    /\ last_call.qr_string = <<"a">>
    /\ Len(result) = 1
    /\ result[1].qr_code = <<"a">>
    /\ result[1].capacity = <<>>

\* The positions of the separators of s, and the position of the i-th one:
\* 0 before the string, Len(s) + 1 behind it.
CommaAt(s) == {k \in 1..Len(s) : s[k] = ","}

Boundary(s, i) ==
    IF i = 0 THEN 0
    ELSE IF Cardinality(CommaAt(s)) < i THEN Len(s) + 1
    ELSE CHOOSE k \in CommaAt(s) : Cardinality({j \in CommaAt(s) : j < k}) = i - 1

SegmentExists(s, i) == Cardinality(CommaAt(s)) >= i - 1

Segment(s, i) == SubSeq(s, Boundary(s, i - 1) + 1, Boundary(s, i) - 1)

\* t from its first to its last character that is not whitespace.
Trimmed(t) ==
    LET solid == {k \in 1..Len(t) : t[k] \notin Whitespace}
    IN  IF solid = {} THEN <<>>
        ELSE SubSeq(t, CHOOSE k \in solid : \A j \in solid : k <= j,
                       CHOOSE k \in solid : \A j \in solid : k >= j)

Field(r, i) ==
    CASE i = 1 -> r.qr_code
      [] i = 2 -> r.imei
      [] i = 3 -> r.device_name
      [] i = 4 -> r.capacity

\* C13: for a non-empty string, field i of the result is the trimmed i-th
\* comma-separated segment where there is one and '' where there is none.
C13_FieldsAreTrimmedSegments ==
    (Parsed /\ last_call.present /\ last_call.qr_string # <<>>) =>
       /\ Len(result) = 1
       /\ \A i \in 1..4 :
            Field(result[1], i) =
               IF SegmentExists(last_call.qr_string, i)
               THEN Trimmed(Segment(last_call.qr_string, i))
               ELSE <<>>

\* A string with a leading comma, a segment with whitespace on both sides
\* and fewer than four segments has been parsed.
C13_Witness ==
    /\ Parsed
    /\ last_call.qr_string = <<",", " ", "a", " ">>
    /\ result[1].qr_code = <<>>
    /\ result[1].imei = <<"a">>
    /\ result[1].device_name = <<>>

\* The record's field values can be told apart in the serialization and
\* survive trimming: none holds a comma or begins or ends with whitespace.
ValidRecord(record) ==
    \A i \in 1..4 :
       /\ CommaAt(Field(record, i)) = {}
       /\ Trimmed(Field(record, i)) = Field(record, i)

\* C14 as stated: parsing the serialization of any record of four field
\* values returns the record.
C14_RoundTripAnyRecord ==
    (Parsed /\ last_call.record # <<>>) => result = last_call.record

\* C14: parsing the serialization of a record whose field values hold no
\* comma and no leading or trailing whitespace returns the record.
C14_RoundTripValidRecord ==
    (Parsed /\ last_call.record # <<>> /\ ValidRecord(last_call.record[1]))
       => result = last_call.record

\* The serialization of a valid record with empty and non-empty fields has
\* been parsed back into the record.
C14_Witness ==
    /\ Parsed
    /\ last_call.record # <<>>
    /\ ValidRecord(last_call.record[1])
    /\ last_call.record[1].qr_code = <<"a">>
    /\ last_call.record[1].imei = <<>>
    /\ last_call.record[1].device_name = <<"a">>
    /\ result = last_call.record

----------------------------------------------------------------------------
(* qr_scanner.py: decode_qr_from_image *)

\* The detector calls of the chain, in the order of the source text:
\* detectAndDecodeMulti and detectAndDecode on the grayscale image, pyzbar on
\* the original buffer, detectAndDecode on the grayscale, the resized, the
\* fixed-threshold and the adaptive-threshold image.
Chain == <<"multi", "single", "pyzbar", "gray", "resized", "binary", "adaptive">>

\* What a call does with the image: it raises, reports no code ("none": an
\* empty string from OpenCV, an empty list from pyzbar), or decodes a text
\* ("found").  pyzbar may also report a symbol whose data is empty ("empty").
OpenCvOutcomes == {"raise", "none", "found"}
PyzbarOutcomes == {"raise", "none", "empty", "found"}

Images ==
    [multi : OpenCvOutcomes, single : OpenCvOutcomes, pyzbar : PyzbarOutcomes,
     gray : OpenCvOutcomes, resized : OpenCvOutcomes, binary : OpenCvOutcomes,
     adaptive : OpenCvOutcomes]

Availabilities == [cv2 : BOOLEAN, pyzbar : BOOLEAN]

\* Where the chain goes when it reaches Method 3 (qr_scanner.py:87) and
\* Method 2 (qr_scanner.py:76).
Method3Start(av) == IF av.cv2 THEN "gray" ELSE "return_none"

Method2Start(av) == IF av.pyzbar THEN "pyzbar" ELSE Method3Start(av)

Method1Start(av) == IF av.cv2 THEN "multi" ELSE Method2Start(av)

\* Variant: an exception of a call reaches the outer handler
\* (qr_scanner.py:107-111) and ends the chain.
AfterRaise_aborts(call, av) == "return_none"

\* Where the chain goes after a call raised: the except clause of the method
\* (qr_scanner.py:73, 84, 101) or, inside the preprocessing helpers, of the
\* helper, which returns None (qr_scanner.py:129, 150, 182).
AfterRaise(call, av) ==
    CASE call \in {"multi", "single"} -> Method2Start(av)
      [] call = "pyzbar" -> Method3Start(av)
      [] call = "gray" -> "resized"
      [] call = "resized" -> "binary"
      [] call \in {"binary", "adaptive"} -> "return_none"

\* Where the chain goes after a call found no code.
AfterNothing(call, av) ==
    CASE call = "multi" -> "single"
      [] call = "single" -> Method2Start(av)
      [] call = "pyzbar" -> Method3Start(av)
      [] call = "gray" -> "resized"
      [] call = "resized" -> "binary"
      [] call = "binary" -> "adaptive"
      [] call = "adaptive" -> "return_none"

\* A call is made.  The text a call decodes is modelled by the name of the
\* call; the function returns <<text>>, and <<>> for None.
Attempt(call) ==
    /\ attempted' = Append(attempted, call)
    /\ CASE image[call] = "found" -> /\ result' = <<call>>
                                     /\ pc' = "done"
         [] image[call] = "empty" -> /\ result' = <<"">>
                                     /\ pc' = "done"
         [] image[call] = "raise" -> /\ pc' = AfterRaise(call, available)
                                     /\ UNCHANGED result
         [] image[call] = "none" -> /\ pc' = AfterNothing(call, available)
                                    /\ UNCHANGED result
    /\ UNCHANGED <<image, available, last_call, app_vars, auth_vars, supplier_vars, session_vars, account_vars>>

\* qr_scanner.py:58-64
DetectAndDecodeMulti ==
    /\ pc = "multi"
    /\ Attempt("multi")

\* qr_scanner.py:67-70
DetectAndDecode ==
    /\ pc = "single"
    /\ Attempt("single")

\* qr_scanner.py:78-82: the text of the first symbol is returned as it is.
PyzbarDecode ==
    /\ pc = "pyzbar"
    /\ Attempt("pyzbar")

\* qr_scanner.py:115-130
DecodeGrayscaleOpencv ==
    /\ pc = "gray"
    /\ Attempt("gray")

\* qr_scanner.py:134-151
DecodeResizedOpencv ==
    /\ pc = "resized"
    /\ Attempt("resized")

\* qr_scanner.py:155-183: the fixed threshold, then the adaptive one.
DecodeBinarizedFixed ==
    /\ pc = "binary"
    /\ Attempt("binary")

DecodeBinarizedAdaptive ==
    /\ pc = "adaptive"
    /\ Attempt("adaptive")

\* qr_scanner.py:105
ReturnNone ==
    /\ pc = "return_none"
    /\ pc' = "done"
    /\ result' = <<>>
    /\ UNCHANGED <<image, available, attempted, last_call, app_vars, auth_vars, supplier_vars, session_vars, account_vars>>

InitDecode ==
    /\ AppIdle
    /\ AuthIdle
    /\ SuppliersIdle
    /\ SessionsIdle
    /\ AccountsIdle
    /\ image \in Images
    /\ available \in Availabilities
    /\ attempted = <<>>
    /\ pc = Method1Start(available)
    /\ last_call = NoCall("decode_qr_from_image")
    /\ result = <<>>

NextDecode ==
    \/ DetectAndDecodeMulti
    \/ DetectAndDecode
    \/ PyzbarDecode
    \/ DecodeGrayscaleOpencv
    \/ DecodeResizedOpencv
    \/ DecodeBinarizedFixed
    \/ DecodeBinarizedAdaptive
    \/ ReturnNone

SpecDecode == InitDecode /\ [][NextDecode]_vars

\* The strategies of the chain in their order, the calls each one makes and
\* whether the libraries it needs were imported.
Strategies == <<"1", "2", "3a", "3b", "3c">>

StrategyCalls(s) ==
    CASE s = "1" -> <<"multi", "single">>
      [] s = "2" -> <<"pyzbar">>
      [] s = "3a" -> <<"gray">>
      [] s = "3b" -> <<"resized">>
      [] s = "3c" -> <<"binary", "adaptive">>

StrategyAvailable(s) == IF s = "2" THEN available.pyzbar ELSE available.cv2

\* What a strategy yields on the image when it is run: the text of its
\* first call that decodes one, unless an earlier call of it raised.
\* <<>> when it finds nothing or raises.
StrategyYield(s) ==
    LET calls == StrategyCalls(s)
        first == calls[1]
    IN  IF image[first] = "found" THEN <<first>>
        ELSE IF image[first] = "empty" THEN <<"">>
        ELSE IF image[first] = "none" /\ Len(calls) = 2 /\ image[calls[2]] = "found" THEN <<calls[2]>>
        ELSE <<>>

YieldsText(s) == StrategyAvailable(s) /\ StrategyYield(s) \notin {<<>>, <<"">>}

ChainIndex(call) == CHOOSE i \in 1..Len(Chain) : Chain[i] = call

StrategyIndex(s) == CHOOSE i \in 1..Len(Strategies) : Strategies[i] = s

Decoded == pc = "done"

\* C15: the calls are made in the order of the chain; when some strategy
\* yields a non-empty text, the function returns the text of the first such
\* strategy and has made no call of a later strategy.
C15_FirstSuccessWins ==
    Decoded =>
       /\ \A i, j \in 1..Len(attempted) :
            i < j => ChainIndex(attempted[i]) < ChainIndex(attempted[j])
       /\ \A k \in 1..Len(Strategies) :
            (/\ YieldsText(Strategies[k])
             /\ \A h \in 1..(k - 1) : ~YieldsText(Strategies[h]))
            => /\ result = StrategyYield(Strategies[k])
               /\ \A h \in (k + 1)..Len(Strategies), c \in 1..Len(attempted) :
                     \A d \in 1..Len(StrategyCalls(Strategies[h])) :
                        attempted[c] # StrategyCalls(Strategies[h])[d]

\* C16: a strategy is attempted whenever every available strategy before it
\* raised or found nothing, and when all of them do the function returns
\* None.
C16_ExceptionsDoNotStopTheChain ==
    Decoded =>
       /\ \A k \in 1..Len(Strategies) :
            (/\ StrategyAvailable(Strategies[k])
             /\ \A h \in 1..(k - 1) :
                  StrategyAvailable(Strategies[h]) => StrategyYield(Strategies[h]) = <<>>)
            => \E c \in 1..Len(attempted) :
                  attempted[c] = StrategyCalls(Strategies[k])[1]
       /\ (\A k \in 1..Len(Strategies) :
             StrategyAvailable(Strategies[k]) => StrategyYield(Strategies[k]) = <<>>)
          => result = <<>>

\* Every strategy raised, each was attempted in turn and None was returned.
C16_Witness ==
    /\ Decoded
    /\ image.multi = "raise"
    /\ image.pyzbar = "raise"
    /\ image.gray = "raise"
    /\ image.resized = "raise"
    /\ image.binary = "raise"
    /\ attempted = <<"multi", "pyzbar", "gray", "resized", "binary">>
    /\ result = <<>>

----------------------------------------------------------------------------
(* google_sheets.py: push_shipments_to_sheets, the bulk push of the *)
(* dashboard and of the management page                              *)

\* Bound on the data rows of the worksheet.
MaxSheet == 4

MSG_NO_DATA == "Khong co du lieu de push len Google Sheets"
MSG_ALL_EXIST == "Tat ca du lieu da ton tai trong Google Sheets. Khong co du lieu moi de them."
MSG_PUSHED == "Da push dong du lieu len Google Sheets thanh cong!"
MSG_PUSH_ERROR == "Loi"

\* get_google_sheets_client: a client, or an error text.
ClientOutcomes == {"ok", "error"}
\* worksheet.col_values(1): the first column, or an exception.
ReadOutcomes == {"ok", "raise"}
\* worksheet.append_rows: done, or an exception.
WriteOutcomes == {"ok", "raise"}
\* Both call sites pass append_mode=True.
AppendModes == {TRUE}

PushResult(success, message, rows_added) ==
    [success |-> success, message |-> message, rows_added |-> rows_added]

\* The ids of column A below the header.
existing_ids(sheet) == {sheet[i].id : i \in 1..Len(sheet)}

\* rows_to_add: one worksheet row per DataFrame row, in order.
RECURSIVE rows_of(_)
rows_of(df) ==
    IF df = <<>> THEN <<>>
    ELSE <<SheetRow(Head(df))>> \o rows_of(Tail(df))

\* The append-mode filter: rows whose id is in column A are dropped; when
\* column A cannot be read the bare except keeps every row.
filter_new(rows, sheet, read) ==
    IF read = "ok"
    THEN SelectSeq(rows, LAMBDA r : r.id \notin existing_ids(sheet))
    ELSE rows

\* The worksheet and the returned dict of push_shipments_to_sheets. The
\* header row is in place (setup_headers leaves the data rows alone then).
push_shipments_to_sheets(sheet, shipments_df, append_mode, client, read, write) ==
    IF shipments_df = <<>>
    THEN [worksheet |-> sheet, result |-> PushResult(FALSE, MSG_NO_DATA, 0)]
    ELSE IF client # "ok"
    THEN [worksheet |-> sheet, result |-> PushResult(FALSE, MSG_PUSH_ERROR, 0)]
    ELSE LET rows_to_add == IF append_mode
                            THEN filter_new(rows_of(shipments_df), sheet, read)
                            ELSE rows_of(shipments_df)
             kept == IF append_mode THEN sheet ELSE <<>>
         IN  IF rows_to_add # <<>>
             THEN IF write = "ok"
                  THEN [worksheet |-> kept \o rows_to_add,
                        result |-> PushResult(TRUE, MSG_PUSHED, Len(rows_to_add))]
                  ELSE [worksheet |-> sheet,
                        result |-> PushResult(FALSE, MSG_PUSH_ERROR, 0)]
             ELSE IF append_mode
                  THEN [worksheet |-> sheet,
                        result |-> PushResult(TRUE, MSG_ALL_EXIST, 0)]
                  ELSE [worksheet |-> kept,
                        result |-> PushResult(TRUE, MSG_PUSHED, 0)]

\* The shipments table the pages read: one row per code.
PushTable ==
    LET imei == CHOOSE x \in Imeis : TRUE
        device_name == CHOOSE x \in DeviceNames : TRUE
        capacity == CHOOSE x \in Capacities : TRUE
        supplier == CHOOSE x \in Suppliers : TRUE
        user == CHOOSE x \in Users : TRUE
    IN  <<NewRow(1, "QR1", imei, device_name, capacity, supplier, user, None, None, 1),
          NewRow(2, "QR2", imei, device_name, capacity, supplier, user, None, None, 2)>>

\* filtered_df: the rows of the table the page's filters let through.
FilteredFrames(rows) ==
    {SelectSeq(rows, LAMBDA r : r.id \in keep) :
        keep \in SUBSET {rows[i].id : i \in 1..Len(rows)}}

InitPush ==
    /\ ShipmentDetails = PushTable
    /\ AuditLog = <<>>
    /\ worksheet = <<>>
    /\ clock = 2
    /\ telegram_calls = 0
    /\ username \in Users
    /\ found_shipment = <<>>
    /\ was_received = {}
    /\ ScanIdle
    /\ AuthIdle
    /\ SuppliersIdle
    /\ SessionsIdle
    /\ AccountsIdle
    /\ last_call = [op |-> "input", df |-> <<>>, append_mode |-> TRUE,
                    client |-> "ok", read |-> "ok", write |-> "ok"]
    /\ result = PushResult(FALSE, MSG_NO_DATA, 0)

\* The "Push len Google Sheets" button.
PushShipments ==
    \E df \in FilteredFrames(ShipmentDetails), append_mode \in AppendModes,
       client \in ClientOutcomes, read \in ReadOutcomes,
       write \in WriteOutcomes :
        LET r == push_shipments_to_sheets(worksheet, df, append_mode,
                                          client, read, write)
        IN  /\ Len(worksheet) + Len(df) <= MaxSheet
            /\ worksheet' = r.worksheet
            /\ result' = r.result
            /\ last_call' = [op |-> "push_shipments_to_sheets", df |-> df,
                             append_mode |-> append_mode, client |-> client,
                             read |-> read, write |-> write]
            /\ UNCHANGED <<ShipmentDetails, AuditLog, clock, telegram_calls,
                           username, found_shipment, was_received, side_vars>>

NextPush == PushShipments

SpecPush == InitPush /\ [][NextPush]_vars

\* The rows the step appended below the rows that were there.
Appended == SubSeq(worksheet', Len(worksheet) + 1, Len(worksheet'))

\* An append-mode push that reached the spreadsheet.
PushedInAppendMode ==
    /\ last_call'.op = "push_shipments_to_sheets"
    /\ last_call'.append_mode
    /\ last_call'.df # <<>>
    /\ last_call'.client = "ok"

\* C17: an append-mode push keeps the rows of the worksheet and adds below
\* them only rows whose id was not in the first column; when the id of every
\* pushed record is already there it adds nothing and returns success with
\* rows_added = 0 and the "no new data" message.
C17_AppendSkipsExistingIds ==
    [][PushedInAppendMode
       => /\ SubSeq(worksheet', 1, Len(worksheet)) = worksheet
          /\ \A i \in 1..Len(Appended) :
                Appended[i].id \notin existing_ids(worksheet)
          /\ (\A i \in 1..Len(last_call'.df) :
                 last_call'.df[i].id \in existing_ids(worksheet))
             => /\ worksheet' = worksheet
                /\ result' = PushResult(TRUE, MSG_ALL_EXIST, 0)]_vars

\* The same statement for the pushes that could read the first column.
C17_AppendSkipsExistingIdsWhenRead ==
    [][PushedInAppendMode /\ last_call'.read = "ok"
       => /\ SubSeq(worksheet', 1, Len(worksheet)) = worksheet
          /\ \A i \in 1..Len(Appended) :
                Appended[i].id \notin existing_ids(worksheet)
          /\ (\A i \in 1..Len(last_call'.df) :
                 last_call'.df[i].id \in existing_ids(worksheet))
             => /\ worksheet' = worksheet
                /\ result' = PushResult(TRUE, MSG_ALL_EXIST, 0)]_vars

\* A push of an already mirrored record was answered with "no new data".
C17_Witness ==
    /\ last_call.op = "push_shipments_to_sheets"
    /\ last_call.client = "ok"
    /\ last_call.read = "ok"
    /\ worksheet # <<>>
    /\ result = PushResult(TRUE, MSG_ALL_EXIST, 0)

----------------------------------------------------------------------------
(* The closed status set *)

\* C18: every shipment row carries one of the four configured status values,
\* and the row a save_shipment call has just inserted carries the default one.
C18_StatusStaysInSet ==
    /\ \A i \in 1..Len(ShipmentDetails) :
          ShipmentDetails[i].status \in StatusSet
    /\ (last_call.op = "save_shipment" /\ result.success)
       => ShipmentDetails[Len(ShipmentDetails)].status = DEFAULT_STATUS

----------------------------------------------------------------------------
(* auth.py: the remember tokens *)

\* Bounds: tokens issued, and the last day the clock reaches.
MaxTokens == 2
MaxNow == 40

\* days_valid of create_remember_token.
DAYS_VALID == 30
\* Time is counted in days; the clock moves on by one of these steps.
TickDays == {10, 20}

\* USERS of config.py.
LoginUsers == {"admin", "user"}

\* The empty remember_token ('' or None).
NoToken == 0
\* uuid4 values: the n-th token issued is n; this value is never issued.
UnknownToken == MaxTokens + 1

\* tokens.get(token): the entry of the store, <<>> when there is none.
token_info(store, token) ==
    SelectSeq(store, LAMBDA e : e.token = token)

\* tokens.pop(token, None)
token_pop(store, token) ==
    SelectSeq(store, LAMBDA e : e.token # token)

\* The store after create_remember_token(user) returned token.
create_remember_token(store, token, user, now) ==
    Append(token_pop(store, token),
           [token |-> token, username |-> user,
            expires_at |-> now + DAYS_VALID])

\* Variant: the expiry date is not looked at.
get_username_from_token_no_expiry(store, token, now) ==
    LET info == token_info(store, token)
    IN  IF token = NoToken \/ info = <<>>
        THEN [tokens |-> store, result |-> <<>>]
        ELSE [tokens |-> store, result |-> <<info[1].username>>]

\* The store and the returned value (<<>> for None) of
\* get_username_from_token(token).
get_username_from_token(store, token, now) ==
    LET info == token_info(store, token)
    IN  IF token = NoToken \/ info = <<>>
        THEN [tokens |-> store, result |-> <<>>]
        ELSE IF now > info[1].expires_at
        THEN [tokens |-> token_pop(store, token), result |-> <<>>]
        ELSE [tokens |-> store, result |-> <<info[1].username>>]

remove_token(store, token) ==
    IF token = NoToken THEN store ELSE token_pop(store, token)

\* The tokens a URL can carry: none, one that was handed out (a uuid4
\* value is not known to anybody before it is issued), or a made-up one.
UrlTokens == {NoToken, UnknownToken} \cup {r.token : r \in issued}

AuthCall(op, token, user) == [op |-> op, token |-> token, username |-> user]

InitAuth ==
    /\ AppIdle
    /\ ScanIdle
    /\ SuppliersIdle
    /\ SessionsIdle
    /\ AccountsIdle
    /\ AuthIdle
    /\ last_call = AuthCall("input", NoToken, None)
    /\ result = <<>>

\* require_login, the form: a successful login issues a token.
LoginSubmit ==
    \E user \in LoginUsers :
        LET token == Cardinality(issued) + 1
        IN  /\ Cardinality(issued) < MaxTokens
            /\ tokens' = create_remember_token(tokens, token, user, utcnow)
            /\ issued' = issued \cup {[token |-> token, username |-> user,
                                       expires_at |-> utcnow + DAYS_VALID]}
            /\ username' = user
            /\ result' = <<token>>
            /\ last_call' = AuthCall("create_remember_token", token, user)
            /\ UNCHANGED <<utcnow, removed, ShipmentDetails, AuditLog,
                           worksheet, clock, telegram_calls, found_shipment,
                           was_received, scan_vars, supplier_vars, session_vars, account_vars>>

\* require_login, a visit of a session not logged in, with the token of
\* its URL.
VisitWithToken ==
    \E token \in UrlTokens :
        LET r == get_username_from_token(tokens, token, utcnow)
        IN  /\ tokens' = r.tokens
            /\ result' = r.result
            /\ username' = IF r.result = <<>> THEN None ELSE r.result[1]
            /\ last_call' = AuthCall("get_username_from_token", token, None)
            /\ UNCHANGED <<utcnow, issued, removed, ShipmentDetails,
                           AuditLog, worksheet, clock, telegram_calls,
                           found_shipment, was_received, scan_vars,
                           supplier_vars, session_vars, account_vars>>

\* logout, with the token of the URL.
Logout ==
    \E token \in UrlTokens :
        /\ tokens' = remove_token(tokens, token)
        /\ removed' = IF token = NoToken THEN removed
                      ELSE removed \cup {token}
        /\ username' = None
        /\ result' = <<>>
        /\ last_call' = AuthCall("logout", token, None)
        /\ UNCHANGED <<utcnow, issued, ShipmentDetails, AuditLog, worksheet,
                       clock, telegram_calls, found_shipment, was_received,
                       scan_vars, supplier_vars, session_vars, account_vars>>

\* datetime.utcnow() moves on.
TimePasses ==
    \E d \in TickDays :
        /\ utcnow + d <= MaxNow
        /\ utcnow' = utcnow + d
        /\ UNCHANGED <<tokens, issued, removed, last_call, result, app_vars,
                       scan_vars, supplier_vars, session_vars, account_vars>>

NextAuth ==
    \/ LoginSubmit
    \/ VisitWithToken
    \/ Logout
    \/ TimePasses

SpecAuth == InitAuth /\ [][NextAuth]_vars

\* The token was issued for the user, was not removed and has not expired.
ValidFor(token, user) ==
    \E r \in issued :
        /\ r.token = token
        /\ r.username = user
        /\ token \notin removed
        /\ ~(utcnow > r.expires_at)

\* The token was issued and its expiry date has passed.
Expired(token) ==
    \E r \in issued : r.token = token /\ utcnow > r.expires_at

\* The token was never issued.
Unknown(token) == \A r \in issued : r.token # token

----------------------------------------------------------------------------
(* database.py: the Suppliers table *)

\* Bound on the rows of the Suppliers table.
MaxSuppliers == 4

ERR_SUPPLIER_EXISTS == "Ten nha cung cap da ton tai"
ERR_NOTHING_TO_UPDATE == "Khong co thong tin de cap nhat"

\* Names typed into the forms: a new one and one that is taken at the start.
SupplierNames == {"Viettel Post", "GHN"}

\* SELECT ... WHERE is_active = 1; the rows of the DataFrame, as a set.
get_suppliers(rows) ==
    {rows[i] : i \in {j \in 1..Len(rows) : rows[j].is_active}}

\* SELECT ... FROM Suppliers; the rows of the DataFrame, as a set.
get_all_suppliers(rows) == {rows[i] : i \in 1..Len(rows)}

\* SELECT MAX(id) FROM Suppliers, None read as 0.
MaxSupplierId(rows) ==
    IF rows = <<>> THEN 0
    ELSE CHOOSE n \in {rows[i].id : i \in 1..Len(rows)} :
            \A i \in 1..Len(rows) : rows[i].id <= n

SupplierResult(success, id, error) ==
    [success |-> success, id |-> id, error |-> error]

\* The table and the returned dict of add_supplier(name); name is UNIQUE.
add_supplier(rows, name) ==
    IF \E i \in 1..Len(rows) : rows[i].name = name
    THEN [rows |-> rows,
          result |-> SupplierResult(FALSE, 0, ERR_SUPPLIER_EXISTS)]
    ELSE LET new_id == MaxSupplierId(rows) + 1
         IN  [rows |-> Append(rows, [id |-> new_id, name |-> name,
                                     is_active |-> TRUE]),
              result |-> SupplierResult(TRUE, new_id, None)]

\* The table and the returned dict of update_supplier(supplier_id, name=,
\* is_active=); is_active is <<>> for None and <<flag>> otherwise.
update_supplier(rows, supplier_id, name, is_active) ==
    IF name = None /\ is_active = <<>>
    THEN [rows |-> rows,
          result |-> SupplierResult(FALSE, 0, ERR_NOTHING_TO_UPDATE)]
    ELSE IF /\ name # None
            /\ \E i \in 1..Len(rows) : rows[i].id = supplier_id
            /\ \E i \in 1..Len(rows) :
                  rows[i].id # supplier_id /\ rows[i].name = name
    THEN [rows |-> rows,
          result |-> SupplierResult(FALSE, 0, ERR_SUPPLIER_EXISTS)]
    ELSE [rows |-> [i \in 1..Len(rows) |->
                      IF rows[i].id # supplier_id THEN rows[i]
                      ELSE [id |-> rows[i].id,
                            name |-> IF name = None THEN rows[i].name
                                     ELSE name,
                            is_active |-> IF is_active = <<>>
                                          THEN rows[i].is_active
                                          ELSE is_active[1]]],
          result |-> SupplierResult(TRUE, 0, None)]

\* Variant: DELETE FROM Suppliers WHERE id = ?
delete_supplier_hard(rows, supplier_id) ==
    [rows |-> SelectSeq(rows, LAMBDA r : r.id # supplier_id),
     result |-> SupplierResult(TRUE, 0, None)]

\* The table and the returned dict of delete_supplier(supplier_id).
delete_supplier(rows, supplier_id) ==
    [rows |-> [i \in 1..Len(rows) |->
                 IF rows[i].id # supplier_id THEN rows[i]
                 ELSE [rows[i] EXCEPT !.is_active = FALSE]],
     result |-> SupplierResult(TRUE, 0, None)]

SupplierCall(op, supplier_id, name, is_active) ==
    [op |-> op, supplier_id |-> supplier_id, name |-> name,
     is_active |-> is_active]

\* The table after init_database has seeded DEFAULT_SUPPLIERS.
InitSuppliers ==
    /\ AppIdle
    /\ ScanIdle
    /\ AuthIdle
    /\ SuppliersIdle
    /\ SessionsIdle
    /\ AccountsIdle
    /\ last_call = SupplierCall("init_database", 0, None, <<>>)
    /\ result = SupplierResult(TRUE, 0, None)

SupplierStep(op, supplier_id, name, is_active, r) ==
    /\ supplier_rows' = r.rows
    /\ result' = r.result
    /\ last_call' = SupplierCall(op, supplier_id, name, is_active)
    /\ UNCHANGED <<app_vars, scan_vars, auth_vars, session_vars, account_vars>>

\* show_add_supplier_form
AddSupplier ==
    \E name \in SupplierNames :
        /\ Len(supplier_rows) < MaxSuppliers
        /\ SupplierStep("add_supplier", 0, name, <<>>,
                        add_supplier(supplier_rows, name))

\* show_suppliers_list, the delete button of an active row
DeleteSupplier ==
    \E i \in 1..Len(supplier_rows) :
        /\ supplier_rows[i].is_active
        /\ SupplierStep("delete_supplier", supplier_rows[i].id, None, <<>>,
                        delete_supplier(supplier_rows, supplier_rows[i].id))

\* show_suppliers_list, the restore button of an inactive row
RestoreSupplier ==
    \E i \in 1..Len(supplier_rows) :
        /\ ~supplier_rows[i].is_active
        /\ SupplierStep("update_supplier", supplier_rows[i].id, None,
                        <<TRUE>>,
                        update_supplier(supplier_rows, supplier_rows[i].id,
                                        None, <<TRUE>>))

\* show_suppliers_list, the edit form: name (None when left blank) and the
\* active checkbox are always sent.
EditSupplier ==
    \E i \in 1..Len(supplier_rows), name \in SupplierNames \cup {None},
       new_active \in BOOLEAN :
        SupplierStep("update_supplier", supplier_rows[i].id, name,
                     <<new_active>>,
                     update_supplier(supplier_rows, supplier_rows[i].id,
                                     name, <<new_active>>))

NextSuppliers ==
    \/ AddSupplier
    \/ DeleteSupplier
    \/ RestoreSupplier
    \/ EditSupplier

SpecSuppliers == InitSuppliers /\ [][NextSuppliers]_vars

SupplierIds(rows) == {rows[i].id : i \in 1..Len(rows)}

\* The row of the table with this id, as a set of at most one row.
SupplierRow(rows, supplier_id) ==
    {r \in get_all_suppliers(rows) : r.id = supplier_id}

\* C20: no step removes a supplier row; delete_supplier changes nothing but
\* the active flag of its row, which it clears; an inactive supplier is not
\* in get_suppliers and is in get_all_suppliers; after a successful
\* update_supplier with is_active true the supplier is in get_suppliers.
C20_SoftDeleteOnly ==
    [][/\ SupplierIds(supplier_rows) \subseteq SupplierIds(supplier_rows')
       /\ Len(supplier_rows') >= Len(supplier_rows)
       /\ (last_call'.op = "delete_supplier")
          => /\ Len(supplier_rows') = Len(supplier_rows)
             /\ \A i \in 1..Len(supplier_rows) :
                   /\ supplier_rows'[i].id = supplier_rows[i].id
                   /\ supplier_rows'[i].name = supplier_rows[i].name
                   /\ supplier_rows'[i].is_active =
                        (supplier_rows[i].is_active
                         /\ supplier_rows[i].id # last_call'.supplier_id)
       /\ \A r \in get_all_suppliers(supplier_rows') :
             r.is_active <=> r \in get_suppliers(supplier_rows')
       /\ get_suppliers(supplier_rows')
             \subseteq get_all_suppliers(supplier_rows')
       /\ (/\ last_call'.op = "update_supplier"
           /\ last_call'.is_active = <<TRUE>>
           /\ result'.success)
          => \E r \in SupplierRow(supplier_rows', last_call'.supplier_id) :
                r \in get_suppliers(supplier_rows')]_vars

\* A soft-deleted supplier has been restored while another one is still
\* soft-deleted: all rows are in the table, the inactive one is hidden.
C20_Witness ==
    /\ last_call.op = "update_supplier"
    /\ last_call.is_active = <<TRUE>>
    /\ result.success
    /\ \E r \in SupplierRow(supplier_rows, last_call.supplier_id) :
          r \in get_suppliers(supplier_rows)
    /\ \E r \in get_all_suppliers(supplier_rows) :
          r \notin get_suppliers(supplier_rows)
    /\ Len(supplier_rows) >= Len(DEFAULT_SUPPLIERS)

----------------------------------------------------------------------------
(* database.py: update_shipment_status called on its own *)

\* Bound on the calls of update_shipment_status in a behaviour.
MaxStatusCalls == 2

\* Callers, codes, statuses and notes handed to the function; "QR9" is the
\* code of no record, "" is the empty notes text.
StatusCallers == {"admin", "staff"}
StatusCallCodes == QrCodes \cup {"QR9"}
StatusCallValues == {DA_NHAN, HU_HONG}
StatusCallNotes == {None, "", "new note"}

\* Two shipments saved by admin, the first with notes and an image.
StatusInitDb ==
    LET d0 == Db(<<>>, <<>>, <<>>, 0)
        d1 == save_shipment(d0, "QR1", "imei1", "iPhone 15", "128GB", "GHN", "admin", "old note", "img", "ok")
        d2 == save_shipment(d1, "QR2", "imei1", "iPhone 15", "128GB", "GHN", "admin", None, None, "ok")
    IN  d2

StatusCall(qr_code, status, by, notes) ==
    [op |-> "update_shipment_status", shipment_id |-> 0, qr_code |-> qr_code,
     status |-> status, by |-> by, notes |-> notes]

InitStatus ==
    /\ ShipmentDetails = StatusInitDb.ShipmentDetails
    /\ AuditLog = StatusInitDb.AuditLog
    /\ worksheet = StatusInitDb.worksheet
    /\ clock = StatusInitDb.clock
    /\ telegram_calls = 0
    /\ username \in Users
    /\ found_shipment = <<>>
    /\ was_received = {}
    /\ ScanIdle
    /\ AuthIdle
    /\ SuppliersIdle
    /\ SessionsIdle
    /\ AccountsIdle
    /\ last_call = [op |-> "input", shipment_id |-> 0, qr_code |-> None,
                    status |-> None, by |-> None, notes |-> None]
    /\ result = Ok

\* One call of update_shipment_status(qr_code, new_status, updated_by, notes).
UpdateShipmentStatus ==
    \E qr_code \in StatusCallCodes, new_status \in StatusCallValues,
       updated_by \in StatusCallers, notes \in StatusCallNotes,
       sync \in SyncOutcomes :
        LET r == update_shipment_status(CurrentDb, qr_code, new_status,
                                        updated_by, notes, sync)
        IN  /\ Len(AuditLog) < Len(StatusInitDb.AuditLog) + MaxStatusCalls
            /\ ShipmentDetails' = r.ShipmentDetails
            /\ AuditLog' = r.AuditLog
            /\ worksheet' = r.worksheet
            /\ clock' = r.clock
            /\ result' = r.result
            /\ last_call' = StatusCall(qr_code, new_status, updated_by, notes)
            /\ UNCHANGED <<telegram_calls, username, found_shipment,
                           was_received, side_vars>>

NextStatus == UpdateShipmentStatus

SpecStatus == InitStatus /\ [][NextStatus]_vars

\* The step is a call of update_shipment_status that found its record.
StatusCallApplied ==
    /\ last_call'.op = "update_shipment_status"
    /\ Indices(ShipmentDetails, last_call'.qr_code) # {}

\* The record the call is aimed at, before and after the step.
StatusTarget == CHOOSE i \in Indices(ShipmentDetails, last_call'.qr_code) : TRUE

\* C21: update_shipment_status replaces the notes of its record exactly when
\* non-empty notes are supplied, records the caller as last updater, and
\* leaves alone the code, device identifier, device name, capacity, supplier,
\* sent timestamp, creator, image reference and notification reference of
\* that record and all of every other record.
C21_StatusUpdateFrame ==
    [][StatusCallApplied
       => LET i == StatusTarget
              old == ShipmentDetails[i]
              new == ShipmentDetails'[i]
              given == last_call'.notes
          IN  /\ result'.success
              /\ Len(ShipmentDetails') = Len(ShipmentDetails)
              /\ new.notes = IF given \notin {None, ""} THEN given
                             ELSE old.notes
              /\ new.updated_by = last_call'.by
              /\ new.id = old.id
              /\ new.qr_code = old.qr_code
              /\ new.imei = old.imei
              /\ new.device_name = old.device_name
              /\ new.capacity = old.capacity
              /\ new.supplier = old.supplier
              /\ new.sent_time = old.sent_time
              /\ new.created_by = old.created_by
              /\ new.image_url = old.image_url
              /\ new.telegram_message_id = old.telegram_message_id
              /\ \A j \in 1..Len(ShipmentDetails) :
                    j # i => ShipmentDetails'[j] = ShipmentDetails[j]]_vars

\* A call with empty notes by another user has left the notes of the record
\* as they were and recorded the caller, after a call that replaced them.
C21_Witness ==
    /\ last_call.op = "update_shipment_status"
    /\ last_call.qr_code = "QR1"
    /\ last_call.notes = ""
    /\ last_call.by = "staff"
    /\ result.success
    /\ ShipmentDetails[1].notes = "new note"
    /\ ShipmentDetails[1].updated_by = "staff"
    /\ ShipmentDetails[1].image_url = "img"
    /\ ShipmentDetails[2].updated_by = None

\* C22: update_shipment_status called with a code of no stored record
\* returns a failure result, changes no shipment record and adds no audit
\* entry.
C22_UnknownCodeFails ==
    [][(/\ last_call'.op = "update_shipment_status"
        /\ Indices(ShipmentDetails, last_call'.qr_code) = {})
       => /\ result' = [success |-> FALSE, error |-> ERR_NOT_FOUND]
          /\ ShipmentDetails' = ShipmentDetails
          /\ AuditLog' = AuditLog
          /\ worksheet' = worksheet]_vars

\* A call with the code of no record has failed after an earlier call
\* succeeded, and the audit log holds the entry of the earlier call only.
C22_Witness ==
    /\ last_call.op = "update_shipment_status"
    /\ Indices(ShipmentDetails, last_call.qr_code) = {}
    /\ ~result.success
    /\ result.error = ERR_NOT_FOUND
    /\ Len(AuditLog) = Len(StatusInitDb.AuditLog) + 1
    /\ AuditLog[Len(AuditLog)].action = "STATUS_CHANGED"

----------------------------------------------------------------------------
(* telegram_helpers.py: notify_shipment_if_received called on its own *)

\* Bound on the requests made to Telegram in a behaviour.
MaxTelegram == 4

\* Two received shipments, the first with an image, the second without.
NotifyInitDb ==
    LET d1 == update_shipment_status(Db(StatusInitDb.ShipmentDetails, StatusInitDb.AuditLog, StatusInitDb.worksheet, StatusInitDb.clock), "QR1", DA_NHAN, "admin", None, "ok")
        d2 == update_shipment_status(Db(d1.ShipmentDetails, d1.AuditLog, d1.worksheet, d1.clock), "QR2", DA_NHAN, "admin", None, "ok")
    IN  d2

\* Shipment ids handed to the function; the last is the id of no record.
NotifyIds == 1..(Len(NotifyInitDb.ShipmentDetails) + 1)

NotifyCall(shipment_id, force, is_update_image, photo, text) ==
    [op |-> "notify_shipment_if_received", shipment_id |-> shipment_id,
     force |-> force, is_update_image |-> is_update_image,
     photo |-> photo, text |-> text]

\* The value the function returns: <<>> for None, else the dict of the last
\* send_photo or send_text call.
NotifyResult(n, calls) ==
    IF n.telegram_calls = calls THEN <<>>
    ELSE <<[success |-> n.sent,
            message_id |-> IF n.sent THEN n.telegram_calls ELSE 0]>>

InitNotify ==
    /\ ShipmentDetails = NotifyInitDb.ShipmentDetails
    /\ AuditLog = NotifyInitDb.AuditLog
    /\ worksheet = NotifyInitDb.worksheet
    /\ clock = NotifyInitDb.clock
    /\ telegram_calls = 0
    /\ username \in Users
    /\ found_shipment = <<>>
    /\ was_received = ReceivedIds(NotifyInitDb.ShipmentDetails)
    /\ ScanIdle
    /\ AuthIdle
    /\ SuppliersIdle
    /\ SessionsIdle
    /\ AccountsIdle
    /\ last_call = NotifyCall(0, FALSE, FALSE, "ok", "ok")
    /\ result = <<>>

\* One call of notify_shipment_if_received(shipment_id, force,
\* is_update_image).
NotifyShipment ==
    \E shipment_id \in NotifyIds, force \in BOOLEAN,
       is_update_image \in BOOLEAN, photo \in SendOutcomes,
       text \in SendOutcomes :
        LET n == notify_shipment_if_received(ShipmentDetails, telegram_calls,
                                             shipment_id, force,
                                             is_update_image, photo, text)
        IN  /\ telegram_calls + 2 <= MaxTelegram
            /\ ShipmentDetails' = n.ShipmentDetails
            /\ telegram_calls' = n.telegram_calls
            /\ result' = NotifyResult(n, telegram_calls)
            /\ last_call' = NotifyCall(shipment_id, force, is_update_image,
                                       photo, text)
            /\ UNCHANGED <<AuditLog, worksheet, clock, username,
                           found_shipment, was_received, side_vars>>

NextNotify == NotifyShipment

SpecNotify == InitNotify /\ [][NextNotify]_vars

\* The step is a notification request for a stored, received shipment.
NotifyRequested ==
    /\ last_call'.op = "notify_shipment_if_received"
    /\ last_call'.shipment_id \in 1..Len(ShipmentDetails)
    /\ ShipmentDetails[last_call'.shipment_id].status = DA_NHAN

C24_ForceSendsAgain ==
    [][(/\ NotifyRequested
        /\ last_call'.force
        /\ ShipmentDetails[last_call'.shipment_id].telegram_message_id # 0)
       => telegram_calls' > telegram_calls]_vars

----------------------------------------------------------------------------
(* database.py: update_shipment_status run by two sessions at once *)

\* Bound on the calls of update_shipment_status started in a behaviour.
MaxRaceCalls == 3

\* Streamlit runs one script thread per browser session.
RaceSessions == {1, 2}
RaceUser(s) == IF s = 1 THEN "admin" ELSE "staff"

\* Locals of a call: the statement it is about to run, its arguments, the
\* row its SELECT fetched, and (history) the status its UPDATE overwrote.
RaceIdle ==
    [pc |-> "idle", qr_code |-> None, new_status |-> None,
     shipment_id |-> 0, old_status |-> None, replaced |-> None]

RaceCall(s) ==
    [op |-> "update_shipment_status", shipment_id |-> sessions[s].shipment_id,
     qr_code |-> sessions[s].qr_code, status |-> sessions[s].new_status,
     by |-> RaceUser(s), notes |-> None]

InitRace ==
    /\ ShipmentDetails = StatusInitDb.ShipmentDetails
    /\ AuditLog = StatusInitDb.AuditLog
    /\ worksheet = StatusInitDb.worksheet
    /\ clock = StatusInitDb.clock
    /\ telegram_calls = 0
    /\ username \in Users
    /\ found_shipment = <<>>
    /\ was_received = {}
    /\ ScanIdle
    /\ AuthIdle
    /\ SuppliersIdle
    /\ sessions = [s \in RaceSessions |-> RaceIdle]
    /\ AccountsIdle
    /\ last_call = [op |-> "input", shipment_id |-> 0, qr_code |-> None,
                    status |-> None, by |-> None, notes |-> None]
    /\ result = Ok

\* Calls started so far: the entries logged and the calls still to log.
RaceStarted ==
    Len(AuditLog) - Len(StatusInitDb.AuditLog)
      + Cardinality({s \in RaceSessions : sessions[s].pc # "idle"})

\* database.py:281-290: SELECT id, status ... WHERE qr_code = ?, outside
\* any transaction (the connection opens one at its first UPDATE).
StatusSelect ==
    \E s \in RaceSessions, qr_code \in QrCodes, new_status \in StatusCallValues :
        LET found == get_shipment_by_qr_code(ShipmentDetails, qr_code)
        IN  /\ sessions[s].pc = "idle"
            /\ RaceStarted < MaxRaceCalls
            /\ found # <<>>
            /\ sessions' = [sessions EXCEPT ![s] =
                               [pc |-> "update", qr_code |-> qr_code,
                                new_status |-> new_status,
                                shipment_id |-> found[1].id,
                                old_status |-> found[1].status,
                                replaced |-> None]]
            /\ UNCHANGED <<app_vars, last_call, result, scan_vars,
                           auth_vars, supplier_vars, account_vars>>

\* database.py:292-315: UPDATE ... WHERE qr_code = ? and commit.
StatusUpdate ==
    \E s \in RaceSessions :
        LET l == sessions[s]
            i == l.shipment_id
            now == clock + 1
        IN  /\ l.pc = "update"
            /\ ShipmentDetails' =
                 [ShipmentDetails EXCEPT ![i] =
                     StatusUpdatedRow(@, l.new_status, RaceUser(s), None, now)]
            /\ clock' = IF l.new_status = DA_NHAN THEN now ELSE clock
            /\ sessions' = [sessions EXCEPT ![s].pc = "log",
                               ![s].replaced = ShipmentDetails[i].status]
            /\ UNCHANGED <<AuditLog, worksheet, telegram_calls, username,
                           found_shipment, was_received, last_call, result,
                           scan_vars, auth_vars, supplier_vars, account_vars>>

\* database.py:317-327: log_audit with the status the SELECT fetched, the
\* sync to the worksheet, and the return.
StatusLog ==
    \E s \in RaceSessions, sync \in SyncOutcomes :
        LET l == sessions[s]
        IN  /\ l.pc = "log"
            /\ AuditLog' = log_audit(AuditLog, l.shipment_id,
                                     "STATUS_CHANGED", l.old_status,
                                     l.new_status, RaceUser(s))
            /\ worksheet' = sync_shipment_to_sheets(worksheet, ShipmentDetails,
                                                    l.shipment_id, FALSE, sync)
            /\ last_call' = RaceCall(s)
            /\ result' = Ok
            /\ sessions' = [sessions EXCEPT ![s] = RaceIdle]
            /\ UNCHANGED <<ShipmentDetails, clock, telegram_calls, username,
                           found_shipment, was_received, scan_vars,
                           auth_vars, supplier_vars, account_vars>>

NextRace ==
    \/ StatusSelect
    \/ StatusUpdate
    \/ StatusLog

SpecRace == InitRace /\ [][NextRace]_vars

\* The STATUS_CHANGED entries of a shipment, in log order.
StatusEntries(log, shipment_id) ==
    SelectSeq(log, LAMBDA e : e.action = "STATUS_CHANGED" /\ e.shipment_id = shipment_id)

\* Each entry starts from the status the entry before it ended with.
IsChain(entries) ==
    \A k \in 1..(Len(entries) - 1) : entries[k + 1].old_value = entries[k].new_value

\* C25: the audit entry of a status update carries as old value the status
\* its UPDATE overwrote, and the status entries of every shipment form a
\* chain, also when two sessions update the same shipment at once.
C25_AuditChainUnderRace ==
    [][(Len(AuditLog') = Len(AuditLog) + 1)
       => \E s \in RaceSessions :
             /\ sessions[s].pc = "log"
             /\ sessions'[s].pc = "idle"
             /\ AuditLog'[Len(AuditLog')].old_value = sessions[s].replaced
             /\ IsChain(StatusEntries(AuditLog', sessions[s].shipment_id))]_vars

----------------------------------------------------------------------------
(* auth.py: the token file shared by two sessions *)

\* Bounds: tokens drawn in a behaviour, and the last day the clock reaches.
MaxRaceTokens == 2
MaxRaceNow == 31

TokenSessions == {1, 2}

\* The tokens a URL can carry here: none, or one that was handed out.
IssuedUrlTokens == {NoToken} \cup {r.token : r \in issued}

\* Locals of a call on the token file: the statement it is about to run,
\* its token and user, and the dict _load_tokens gave it.
TokenLocals(pc0, token, user, loaded) ==
    [pc |-> pc0, token |-> token, username |-> user, loaded |-> loaded]

TokenIdle == TokenLocals("idle", NoToken, None, <<>>)

\* The tokens of the calls of create_remember_token that have not saved yet.
TokensInFlight ==
    {sessions[s].token : s \in {x \in TokenSessions : sessions[x].pc = "create_save"}}

\* uuid4(): a value that no call has drawn before.
FreshToken ==
    CHOOSE t \in 1..MaxRaceTokens :
        /\ t \notin TokensInFlight
        /\ \A r \in issued : r.token # t
        /\ \A u \in 1..(t - 1) :
              u \in TokensInFlight \/ \E r \in issued : r.token = u

InitTokenRace ==
    /\ AppIdle
    /\ ScanIdle
    /\ SuppliersIdle
    /\ tokens = <<>>
    /\ utcnow = 0
    /\ issued = {}
    /\ removed = {}
    /\ sessions = [s \in TokenSessions |-> TokenIdle]
    /\ AccountsIdle
    /\ last_call = AuthCall("input", NoToken, None)
    /\ result = <<>>

TokenFrame == UNCHANGED <<app_vars, scan_vars, supplier_vars, account_vars>>

\* auth.py:40-42: create_remember_token draws its token and loads the file.
CreateLoad ==
    \E s \in TokenSessions :
        /\ sessions[s].pc = "idle"
        /\ Cardinality(issued) + Cardinality(TokensInFlight) < MaxRaceTokens
        /\ sessions' = [sessions EXCEPT ![s] =
                           TokenLocals("create_save", FreshToken, RaceUser(s), tokens)]
        /\ UNCHANGED <<tokens, utcnow, issued, removed, last_call, result>>
        /\ TokenFrame

\* auth.py:43-45: the entry is added to the loaded dict, which is written
\* over the file, and the token is returned.
CreateSave ==
    \E s \in TokenSessions :
        LET l == sessions[s]
        IN  /\ l.pc = "create_save"
            /\ tokens' = create_remember_token(l.loaded, l.token, l.username, utcnow)
            /\ issued' = issued \cup {[token |-> l.token, username |-> l.username,
                                       expires_at |-> utcnow + DAYS_VALID]}
            /\ result' = <<l.token>>
            /\ last_call' = AuthCall("create_remember_token", l.token, l.username)
            /\ sessions' = [sessions EXCEPT ![s] = TokenIdle]
            /\ UNCHANGED <<utcnow, removed>>
            /\ TokenFrame

\* auth.py:70-73: remove_token loads the file; a token that is not in it
\* ends the call.
RemoveLoad ==
    \E s \in TokenSessions, token \in IssuedUrlTokens \ {NoToken} :
        /\ sessions[s].pc = "idle"
        /\ IF token_info(tokens, token) # <<>>
           THEN /\ sessions' = [sessions EXCEPT ![s] =
                                   TokenLocals("remove_save", token, None, tokens)]
                /\ UNCHANGED <<removed, last_call, result>>
           ELSE /\ removed' = removed \cup {token}
                /\ last_call' = AuthCall("remove_token", token, None)
                /\ result' = <<>>
                /\ UNCHANGED sessions
        /\ UNCHANGED <<tokens, utcnow, issued>>
        /\ TokenFrame

\* auth.py:74-75: the token is popped from the loaded dict, which is
\* written over the file.
RemoveSave ==
    \E s \in TokenSessions :
        LET l == sessions[s]
        IN  /\ l.pc = "remove_save"
            /\ tokens' = token_pop(l.loaded, l.token)
            /\ removed' = removed \cup {l.token}
            /\ last_call' = AuthCall("remove_token", l.token, None)
            /\ result' = <<>>
            /\ sessions' = [sessions EXCEPT ![s] = TokenIdle]
            /\ UNCHANGED <<utcnow, issued>>
            /\ TokenFrame

\* auth.py:50-65: get_username_from_token loads the file and answers,
\* unless the token has expired.
LookupLoad ==
    \E s \in TokenSessions, token \in IssuedUrlTokens :
        LET r == get_username_from_token(tokens, token, utcnow)
        IN  /\ sessions[s].pc = "idle"
            /\ IF r.tokens # tokens
               THEN /\ sessions' = [sessions EXCEPT ![s] =
                                       TokenLocals("lookup_save", token, None, tokens)]
                    /\ UNCHANGED <<last_call, result>>
               ELSE /\ last_call' = AuthCall("get_username_from_token", token, None)
                    /\ result' = r.result
                    /\ UNCHANGED sessions
            /\ UNCHANGED <<tokens, utcnow, issued, removed>>
            /\ TokenFrame

\* auth.py:58-61: the expired token is popped from the loaded dict, which
\* is written over the file; the call returns None.
LookupSave ==
    \E s \in TokenSessions :
        LET l == sessions[s]
        IN  /\ l.pc = "lookup_save"
            /\ tokens' = token_pop(l.loaded, l.token)
            /\ last_call' = AuthCall("get_username_from_token", l.token, None)
            /\ result' = <<>>
            /\ sessions' = [sessions EXCEPT ![s] = TokenIdle]
            /\ UNCHANGED <<utcnow, issued, removed>>
            /\ TokenFrame

\* datetime.utcnow() moves on, past the expiry date of the tokens issued.
TokenTimePasses ==
    \E d \in {DAYS_VALID + 1} :
        /\ utcnow + d <= MaxRaceNow
        /\ utcnow' = utcnow + d
        /\ UNCHANGED <<tokens, issued, removed, sessions, last_call, result>>
        /\ TokenFrame

NextTokenRace ==
    \/ CreateLoad
    \/ CreateSave
    \/ RemoveLoad
    \/ RemoveSave
    \/ LookupLoad
    \/ LookupSave
    \/ TokenTimePasses

SpecTokenRace == InitTokenRace /\ [][NextTokenRace]_vars

\* C26: once remove_token(t) has completed, no later call of
\* get_username_from_token(t) returns a user, whatever other sessions do to
\* the token file at the same time.
C26_RemovedTokenStaysDead ==
    [][(/\ last_call'.op = "get_username_from_token"
        /\ last_call'.token \in removed
        /\ <<last_call, result, sessions>> # <<last_call', result', sessions'>>)
       => result' = <<>>]_vars

----------------------------------------------------------------------------
(* auth.py: check_login; database.py: the Users table *)

\* Names and passwords typed into the forms; "guest" has no seeded row.
AccountNames == {"admin", "user", "guest"}
Passwords == {"admin123", "user123", "pw1"}

\* get_user(username): <<>> or <<row>>
get_user(rows, name) ==
    SelectSeq(rows, LAMBDA r : r.username = name)

\* The table after set_user_password(username, password, is_admin): INSERT
\* ... ON CONFLICT(username) DO UPDATE.
set_user_password(rows, name, password, is_admin) ==
    IF get_user(rows, name) = <<>>
    THEN Append(rows, [username |-> name, password |-> password,
                       is_admin |-> is_admin])
    ELSE [i \in 1..Len(rows) |->
            IF rows[i].username = name
            THEN [username |-> name, password |-> password,
                  is_admin |-> is_admin]
            ELSE rows[i]]

\* check_login(username, password): the row of the Users table first, then
\* the static table of config.py.
check_login(rows, name, password) ==
    LET db_user == get_user(rows, name)
    IN  IF db_user # <<>> /\ db_user[1].password = password
        THEN TRUE
        ELSE name \in DOMAIN USERS /\ USERS[name] = password

AccountCall(op, name, password) ==
    [op |-> op, username |-> name, password |-> password]

InitAccounts ==
    /\ AppIdle
    /\ ScanIdle
    /\ AuthIdle
    /\ SuppliersIdle
    /\ SessionsIdle
    /\ AccountsIdle
    /\ last_call = AccountCall("init_database", None, None)
    /\ result = [success |-> TRUE, error |-> None]

AccountFrame ==
    UNCHANGED <<app_vars, scan_vars, auth_vars, supplier_vars, session_vars>>

\* show_user_management: the account form, with name and password filled in.
SetUserPassword ==
    \E name \in AccountNames, password \in Passwords, is_admin \in BOOLEAN :
        /\ user_rows' = set_user_password(user_rows, name, password, is_admin)
        /\ last_call' = AccountCall("set_user_password", name, password)
        /\ result' = [success |-> TRUE, error |-> None]
        /\ AccountFrame

\* login(username, password): the login form.
CheckLogin ==
    \E name \in AccountNames, password \in Passwords :
        /\ last_call' = AccountCall("check_login", name, password)
        /\ result' = [success |-> check_login(user_rows, name, password),
                      error |-> None]
        /\ UNCHANGED user_rows
        /\ AccountFrame

NextAccounts ==
    \/ SetUserPassword
    \/ CheckLogin

SpecAccounts == InitAccounts /\ [][NextAccounts]_vars

\* C27: a user with a row in the Users table (every user whose password was
\* set, and the seeded users, whose row holds the static password until it
\* is set) logs in with the password of that row only.
C27_OnlyCurrentPassword ==
    [][(/\ last_call'.op = "check_login"
        /\ get_user(user_rows, last_call'.username) # <<>>)
       => (result'.success
           <=> last_call'.password
                 = get_user(user_rows, last_call'.username)[1].password)]_vars

\* C28: decode_qr_from_image ends with None or with a non-empty text; an
\* empty payload is not returned, whichever strategy decoded it.
C28_NeverReturnsEmptyText ==
    (Decoded /\ result # <<>>) => result[1] # ""

----------------------------------------------------------------------------
(* google_sheets.py: sync_shipment_to_sheets run by two sessions at once *)

SheetSessions == {1, 2}

\* Two shipments whose rows did not reach the worksheet: the sync of both
\* creations failed.
SheetRaceInitDb ==
    LET d0 == Db(<<>>, <<>>, <<>>, 0)
        d1 == save_shipment(d0, "QR1", "imei1", "iPhone 15", "128GB", "GHN", "admin", None, None, "fail")
        d2 == save_shipment(d1, "QR2", "imei1", "iPhone 15", "128GB", "GHN", "admin", None, None, "fail")
    IN  d2

\* Locals of a sync: the statement it is about to run, its shipment and the
\* row number find_row_by_id gave it (0 for None).
SyncLocals(pc0, shipment_id, row_num) ==
    [pc |-> pc0, shipment_id |-> shipment_id, row_num |-> row_num]

SyncIdle == SyncLocals("idle", 0, 0)

SyncCall(shipment_id, row_num, outcome) ==
    [op |-> "sync_shipment_to_sheets", shipment_id |-> shipment_id,
     row_num |-> row_num, outcome |-> outcome]

InitSheetRace ==
    /\ ShipmentDetails = SheetRaceInitDb.ShipmentDetails
    /\ AuditLog = SheetRaceInitDb.AuditLog
    /\ worksheet = SheetRaceInitDb.worksheet
    /\ clock = SheetRaceInitDb.clock
    /\ telegram_calls = 0
    /\ username \in Users
    /\ found_shipment = <<>>
    /\ was_received = {}
    /\ ScanIdle
    /\ AuthIdle
    /\ SuppliersIdle
    /\ AccountsIdle
    /\ sessions = [s \in SheetSessions |-> SyncIdle]
    /\ last_call = SyncCall(0, 0, "ok")
    /\ result = [success |-> TRUE]

SheetFrame ==
    UNCHANGED <<ShipmentDetails, AuditLog, clock, telegram_calls, username, found_shipment, was_received, scan_vars, auth_vars, supplier_vars, account_vars>>

\* google_sheets.py:299-304, 197-208: sync_shipment_to_sheets(shipment_id,
\* is_new=False) reads column A to find the row of the shipment; a read
\* that raises gives None, as a shipment that is not there does.
SyncFind ==
    \E s \in SheetSessions, shipment_id \in 1..Len(ShipmentDetails), read \in ReadOutcomes :
        /\ sessions[s].pc = "idle"
        /\ Len(worksheet) + Cardinality({x \in SheetSessions : sessions[x].pc = "write"}) < MaxSheet
        /\ sessions' = [sessions EXCEPT ![s] =
                           SyncLocals("write", shipment_id,
                                      IF read = "ok"
                                      THEN find_row_by_id(worksheet, shipment_id)
                                      ELSE 0)]
        /\ UNCHANGED <<worksheet, last_call, result>>
        /\ SheetFrame

\* google_sheets.py:301-330, 252-266: the row found is overwritten, or a
\* row is appended when none was found; an exception of the write is
\* returned as a failure.
SyncWrite ==
    \E s \in SheetSessions, write \in WriteOutcomes :
        LET l == sessions[s]
            row == ShipmentDetails[l.shipment_id]
        IN  /\ l.pc = "write"
            /\ worksheet' =
                 IF write # "ok" THEN worksheet
                 ELSE IF l.row_num = 0
                 THEN add_shipment_to_sheets(worksheet, row)
                 ELSE [worksheet EXCEPT ![l.row_num] = SheetRow(row)]
            /\ last_call' = SyncCall(l.shipment_id, l.row_num, write)
            /\ result' = [success |-> write = "ok"]
            /\ sessions' = [sessions EXCEPT ![s] = SyncIdle]
            /\ SheetFrame

NextSheetRace ==
    \/ SyncFind
    \/ SyncWrite

SpecSheetRace == InitSheetRace /\ [][NextSheetRace]_vars

\* C29: the worksheet holds at most one data row per shipment id.
C29_OneRowPerShipment ==
    \A i, j \in 1..Len(worksheet) :
        worksheet[i].id = worksheet[j].id => i = j

----------------------------------------------------------------------------
(* database.py: save_shipment when the audit write can fail *)

\* Codes typed into the create form.
AuditCodes == {"QR1", "QR2", "QR3"}

\* The INSERT of log_audit: done, or an sqlite3 error (the database is
\* locked by another writer, the disk is full), which log_audit prints and
\* swallows after a rollback.
AuditOutcomes == {"ok", "error"}

\* The audit log after a call of log_audit that was to leave new_log.
log_audit_outcome(log, new_log, audit) ==
    IF audit = "ok" THEN new_log ELSE log

InitAuditFault ==
    /\ AppIdle
    /\ ScanIdle
    /\ AuthIdle
    /\ SuppliersIdle
    /\ SessionsIdle
    /\ AccountsIdle
    /\ last_call = NoCall("save_shipment")
    /\ result = Ok

\* One call of save_shipment; the row is committed before log_audit runs
\* on a connection of its own.
SaveShipment ==
    \E qr_code \in AuditCodes, audit \in AuditOutcomes, sync \in SyncOutcomes :
        LET r == save_shipment(CurrentDb, qr_code, "imei1", "iPhone 15", "128GB", "GHN", current_user, None, None, sync)
        IN  /\ ShipmentDetails' = r.ShipmentDetails
            /\ AuditLog' = log_audit_outcome(AuditLog, r.AuditLog, audit)
            /\ worksheet' = r.worksheet
            /\ clock' = r.clock
            /\ result' = [success |-> r.result.success, error |-> r.result.error]
            /\ last_call' = Call("save_shipment", r.result.id, qr_code, DEFAULT_STATUS, current_user)
            /\ UNCHANGED <<telegram_calls, username, found_shipment, was_received, side_vars>>

NextAuditFault == SaveShipment

SpecAuditFault == InitAuditFault /\ [][NextAuditFault]_vars

\* The CREATED entries of the audit log that reference the shipment.
CreatedEntries(shipment_id) ==
    {k \in 1..Len(AuditLog) : AuditLog[k].action = "CREATED" /\ AuditLog[k].shipment_id = shipment_id}

\* C30: every stored shipment has exactly one CREATED audit entry, also when
\* the audit write met a storage error.
C30_OneCreatedEntryPerShipment ==
    \A i \in 1..Len(ShipmentDetails) : Cardinality(CreatedEntries(i)) = 1

====
